---- MODULE Spec2Model ----
(***************************************************************************)
(* Announcement scheduling and playback queue engine of essahoisa.         *)
(*                                                                         *)
(* The model follows the TypeScript sources:                               *)
(*   utils/scheduleNormalizer   normalizeEntries, sortEntries,             *)
(*                              pickDisplayEntries                         *)
(*   utils/audioPlaybackManager the persisted playback ledger              *)
(*   hooks/useAudioQueue        enqueueForDisplay (threshold detector)     *)
(*   utils/audioPlaybackState   the global queue and the serial engine     *)
(*                                                                         *)
(* Time is counted in minutes since midnight of day 0.  A wall-clock time  *)
(* "HH:MM" is the pair <<HH, MM>>, the empty string is <<>>.               *)
(***************************************************************************)
EXTENDS Integers, Sequences, FiniteSets, TLC

VARIABLES
    now,                      \* the wall clock, in minutes since day 0 00:00
    ledger,                   \* localStorage["audioPlaybackRecords"], parsed
    globalAudioQueue,         \* the global announcement queue
    isProcessingGlobalQueue,  \* the drain flag
    processedEntries,         \* entry ids ever accepted into the queue
    playedEntries,            \* entry ids whose playback has started
    batchProcessingTimeout,   \* TRUE while a collection-window timer is pending
    globalPlaybackState,      \* isPlaying / currentEntryId / currentEntryArrivalTime
    drains,                   \* the suspended processGlobalAudioQueue executions
    lastBatch,                \* history: the queue as it was when the last drain began
    commitCount,              \* history: how often <<entryId, timing, day>> was committed
    outcome,                  \* history: how each entry's last playback of this page ended
    input,                    \* the arguments of a function applied on its own
    output,                   \* its result
    pollingStates,            \* PollingManager.pollingStates, by monitor key
    pollTimers,               \* the pending timers of PollingManager.setTimeout
    pollCycles,               \* the scheduleNext executions suspended in `await load`
    hooks                     \* the usePolling instances: their state and cleanup

vars == <<now, ledger, globalAudioQueue, isProcessingGlobalQueue, processedEntries,
          playedEntries, batchProcessingTimeout, globalPlaybackState, drains,
          lastBatch, commitCount, outcome, input, output,
          pollingStates, pollTimers, pollCycles, hooks>>

\* The variables only the function-level specifications use.
harness == <<input, output>>

\* The variables of the Poll Driver.
driver == <<pollingStates, pollTimers, pollCycles, hooks>>

-----------------------------------------------------------------------------
(* Bounds and configuration                                                *)

\* The clock runs over days 0..MaxDay.
MaxDay == 1

\* The minutes of a day at which the clock is observed.
DayTicks == {570, 600}

ClockTicks == {d * 1440 + t : d \in 0..MaxDay, t \in DayTicks}

\* null (an absent arrivalDatetime, an absent current entry).
NULL == -1

\* The empty wall-clock string.
NoTime == <<>>

\* A null currentEntryId.
NoEntry == "null"

\* The monitors (feeds) of the split view: "1" on the left, "2" on the right.
\* The optional isLeftSide flag is "true", "false" or "undefined".
Feeds == {"1", "2"}

MonitorConfig ==
    [f \in Feeds |->
        [id |-> f, hasAudio |-> TRUE, timings |-> <<30, 0>>,
         isLeftSide |-> (IF f = "1" THEN "true" ELSE "false")]]

\* displaySettings.beforeMinutes
beforeMinutes == 30

\* pickDisplayEntries' default limit
DisplayLimit == 2

\* The schedule documents the feeds fetch.
ScheduleData ==
    [f \in Feeds |->
        IF f = "1"
        THEN << [id |-> "e1", order |-> 1, arrivalTime |-> <<10, 0>>, finishTime |-> <<10, 5>>] >>
        ELSE << [id |-> "e1", order |-> 1, arrivalTime |-> <<10, 0>>, finishTime |-> <<10, 5>>],
                [id |-> "e2", order |-> 2, arrivalTime |-> <<9, 50>>, finishTime |-> <<10, 0>>] >>]

EntryIds == {"e1", "e2", "e3"}

-----------------------------------------------------------------------------
(* Helpers                                                                 *)

Range(s) == {s[i] : i \in 1..Len(s)}

MinOf(S) == CHOOSE x \in S : \A y \in S : x <= y

\* new Date(t).toDateString(): the calendar day of an instant.
DayOf(t) == t \div 1440

\* now.getHours() * 60 + now.getMinutes()
CurrentTimeMinutes(t) == t % 1440

\* "HH:MM".split(':').map(Number), then hours * 60 + minutes
ParseMinutes(hhmm) == hhmm[1] * 60 + hhmm[2]

\* Array.prototype.sort with a consistent comparator is a stable sort:
\* element i goes to the position counting the elements that precede it.
StableSort(s, Before(_, _)) ==
    LET Rank(i) == Cardinality({j \in 1..Len(s) :
                        Before(s[j], s[i]) \/ (~Before(s[i], s[j]) /\ j < i)}) + 1
    IN [p \in 1..Len(s) |-> s[CHOOSE i \in 1..Len(s) : Rank(i) = p]]

-----------------------------------------------------------------------------
(* Entry Normalizer and Display Selector (utils/scheduleNormalizer)        *)

\* Variant: <= in place of < in the next-day test.
ArrivalDatetimeOfInclusive(entry, currentTimeMinutes) ==
    IF entry.arrivalTime = NoTime
    THEN NULL
    ELSE LET arrivalTime == ParseMinutes(entry.arrivalTime)
             finishTime  == IF entry.finishTime # NoTime
                            THEN ParseMinutes(entry.finishTime)
                            ELSE arrivalTime + 5
         IN IF finishTime <= currentTimeMinutes THEN arrivalTime + 24 * 60 ELSE arrivalTime

\* Variant: the instant is never moved to the next day.
ArrivalDatetimeOfSameDay(entry, currentTimeMinutes) ==
    IF entry.arrivalTime = NoTime
    THEN NULL
    ELSE ParseMinutes(entry.arrivalTime)

\* The arrival instant normalizeEntries derives for one entry.
ArrivalDatetimeOf(entry, currentTimeMinutes) ==
    IF entry.arrivalTime = NoTime
    THEN NULL
    ELSE LET arrivalTime == ParseMinutes(entry.arrivalTime)
             finishTime  == IF entry.finishTime # NoTime
                            THEN ParseMinutes(entry.finishTime)
                            ELSE arrivalTime + 5
             isNextDay   == finishTime < currentTimeMinutes
         IN IF isNextDay THEN arrivalTime + 24 * 60 ELSE arrivalTime

normalizeEntries(entries, currentTimeMinutes) ==
    LET mapped == [i \in 1..Len(entries) |->
                     [id |-> entries[i].id, order |-> entries[i].order,
                      arrivalTime |-> entries[i].arrivalTime,
                      finishTime |-> entries[i].finishTime,
                      arrivalDatetime |-> ArrivalDatetimeOf(entries[i], currentTimeMinutes)]]
    IN SelectSeq(mapped, LAMBDA e : e.arrivalDatetime # NULL)

\* The comparator of sortEntries: arrivalDatetime, then parseInt(order).
EntryBefore(a, b) ==
    IF a.arrivalDatetime # b.arrivalDatetime
    THEN a.arrivalDatetime < b.arrivalDatetime
    ELSE a.order < b.order

sortEntries(entries) == StableSort(entries, EntryBefore)

\* !entry.arrivalDatetime : null and 0 are both falsy.
Falsy(n) == n = NULL \/ n = 0

pickDisplayEntries(entries, currentTimeMinutes, before, limit) ==
    LET shown == SelectSeq(entries, LAMBDA e :
                    /\ ~Falsy(e.arrivalDatetime)
                    /\ currentTimeMinutes >= e.arrivalDatetime - before)
    IN SubSeq(shown, 1, IF Len(shown) < limit THEN Len(shown) ELSE limit)

\* useScheduleData.load: what one poll cycle of feed f selects at instant t.
LoadDisplayEntries(f, t) ==
    LET currentTimeMinutes == CurrentTimeMinutes(t)
    IN pickDisplayEntries(
           sortEntries(normalizeEntries(ScheduleData[f], currentTimeMinutes)),
           currentTimeMinutes, beforeMinutes, DisplayLimit)

-----------------------------------------------------------------------------
(* Playback Ledger (utils/audioPlaybackManager)                            *)

WithEntry(records, entryId) == SelectSeq(records, LAMBDA r : r.entryId = entryId)

WithoutEntry(records, entryId) == SelectSeq(records, LAMBDA r : r.entryId # entryId)

Timings(records) == {records[i].timingMinutes : i \in 1..Len(records)}

\* Variant: > in place of >= in the last comparison.
hasBeenPlayedStrict(records, entryId, timingMinutes, t) ==
    LET entryRecords == WithEntry(records, entryId)
        todayRecords == SelectSeq(entryRecords, LAMBDA r : DayOf(r.playedAt) = DayOf(t))
    IN IF Len(entryRecords) = 0 THEN FALSE
       ELSE IF Len(todayRecords) = 0 THEN FALSE
       ELSE timingMinutes > MinOf(Timings(todayRecords))

\* Variant: the records of every day count, not only today's.
hasBeenPlayedAnyDay(records, entryId, timingMinutes, t) ==
    LET entryRecords == WithEntry(records, entryId)
    IN IF Len(entryRecords) = 0 THEN FALSE
       ELSE timingMinutes >= MinOf(Timings(entryRecords))

\* hasBeenPlayed(entryId, timingMinutes), reading the store `records` at instant t.
hasBeenPlayed(records, entryId, timingMinutes, t) ==
    LET entryRecords == WithEntry(records, entryId)
        todayRecords == SelectSeq(entryRecords, LAMBDA r : DayOf(r.playedAt) = DayOf(t))
    IN IF Len(entryRecords) = 0 THEN FALSE
       ELSE IF Len(todayRecords) = 0 THEN FALSE
       ELSE timingMinutes >= MinOf(Timings(todayRecords))

\* JSON.stringify(records).length for records of this model: the entry ids have
\* two characters, playedAt 29, arrivalTime 5, the threshold one or two digits.
JsonLength(records) ==
    LET RecLen(r) == 12 + 2 + 18 + (IF r.timingMinutes < 10 THEN 1 ELSE 2)
                     + 13 + 29 + 17 + 5 + 2
        Sum[i \in 0..Len(records)] ==
            IF i = 0 THEN 0 ELSE Sum[i - 1] + RecLen(records[i])
    IN 2 + Sum[Len(records)] + (IF Len(records) > 1 THEN Len(records) - 1 ELSE 0)

\* The 4MB guard on the serialized store.
StorageLimit == 4 * 1024 * 1024

\* Variant: the new record replaces the old one with its own threshold.
savePlaybackRecordKeepNew(records, record) ==
    Append(WithoutEntry(records, record.entryId), record)

\* savePlaybackRecord(record): the store it leaves.
savePlaybackRecord(records, record) ==
    LET entryRecords == WithEntry(records, record.entryId)
    IN IF Len(entryRecords) > 0
       THEN LET lastTiming      == MinOf(Timings(entryRecords))
                newLastTiming   == IF lastTiming < record.timingMinutes
                                   THEN lastTiming ELSE record.timingMinutes
                filteredRecords == WithoutEntry(records, record.entryId)
                newRecord       == [record EXCEPT !.timingMinutes = newLastTiming]
                newRecords      == Append(filteredRecords, newRecord)
            IN IF JsonLength(newRecords) > StorageLimit
               THEN <<newRecord>>
               ELSE newRecords
       ELSE LET newRecords == Append(records, record)
            IN IF JsonLength(newRecords) > StorageLimit
               THEN <<record>>
               ELSE newRecords

\* Variant: >= in place of > in the filter.
cleanupOldRecordsInclusive(records, t) ==
    LET oneDayAgo == t - 24 * 60
    IN SelectSeq(records, LAMBDA r : r.playedAt >= oneDayAgo)

\* cleanupOldRecords(): the store it leaves at instant t.  The records played
\* after oneDayAgo are kept; were they to serialize to more than 4MB, the
\* store would be emptied.
cleanupOldRecords(records, t) ==
    LET oneDayAgo     == t - 24 * 60
        recentRecords == SelectSeq(records, LAMBDA r : r.playedAt > oneDayAgo)
    IN IF JsonLength(recentRecords) > StorageLimit THEN << >> ELSE recentRecords

-----------------------------------------------------------------------------
(* Threshold Detector (hooks/useAudioQueue, enqueueForDisplay)             *)

\* Variant: the due thresholds are tried in configured order, unsorted.
TargetTimingUnsorted(entry, speechTimings, currentTimeMinutes, records, t) ==
    LET arrivalTime == entry.arrivalDatetime
        pastTimings == SelectSeq(speechTimings, LAMBDA timingMinutes :
                          currentTimeMinutes >= arrivalTime - timingMinutes)
        unplayed == {i \in 1..Len(pastTimings) :
                        ~hasBeenPlayed(records, entry.id, pastTimings[i], t)}
    IN IF Len(pastTimings) = 0 THEN NULL
       ELSE IF unplayed = {} THEN NULL
       ELSE pastTimings[MinOf(unplayed)]

\* Variant: the smallest due threshold, whether the ledger has it or not.
TargetTimingAnyDue(entry, speechTimings, currentTimeMinutes, records, t) ==
    LET arrivalTime == entry.arrivalDatetime
        pastTimings == SelectSeq(speechTimings, LAMBDA timingMinutes :
                          currentTimeMinutes >= arrivalTime - timingMinutes)
    IN IF Len(pastTimings) = 0 THEN NULL
       ELSE MinOf(Range(pastTimings))

\* The single candidate threshold of one display entry, or NULL.
TargetTiming(entry, speechTimings, currentTimeMinutes, records, t) ==
    LET arrivalTime == entry.arrivalDatetime
        pastTimings == SelectSeq(speechTimings, LAMBDA timingMinutes :
                          currentTimeMinutes >= arrivalTime - timingMinutes)
        sortedPastTimings == StableSort(pastTimings, LAMBDA a, b : a < b)
        unplayed == {i \in 1..Len(sortedPastTimings) :
                        ~hasBeenPlayed(records, entry.id, sortedPastTimings[i], t)}
    IN IF Len(pastTimings) = 0 THEN NULL
       ELSE IF unplayed = {} THEN NULL
       ELSE sortedPastTimings[MinOf(unplayed)]

\* Whether the loop of enqueueForDisplay passes over the entry before it
\* looks at the thresholds: a falsy field, or the finish time already past.
EntrySkipped(entry, currentTimeMinutes) ==
    \/ entry.arrivalTime = NoTime
    \/ Falsy(entry.arrivalDatetime)
    \/ LET finishTime ==
               IF entry.finishTime # NoTime
               THEN LET finishTimeMinutes == ParseMinutes(entry.finishTime)
                    IN IF finishTimeMinutes < currentTimeMinutes
                       THEN finishTimeMinutes + 24 * 60
                       ELSE finishTimeMinutes
               ELSE entry.arrivalDatetime + 5
       IN currentTimeMinutes > finishTime

\* The audioEntries enqueueForDisplay builds, in display order.
AudioEntries(displayEntries, monitor, currentTimeMinutes, isVisible, records, t) ==
    IF ~monitor.hasAudio \/ ~isVisible
    THEN << >>
    ELSE LET timingOf(i) ==
                 IF EntrySkipped(displayEntries[i], currentTimeMinutes)
                 THEN NULL
                 ELSE TargetTiming(displayEntries[i], monitor.timings,
                                   currentTimeMinutes, records, t)
             all == [i \in 1..Len(displayEntries) |->
                       [entryId         |-> displayEntries[i].id,
                        arrivalTime     |-> displayEntries[i].arrivalTime,
                        arrivalDatetime |-> displayEntries[i].arrivalDatetime,
                        monitorId       |-> monitor.id,
                        isMainEntry     |-> (i = 1),
                        timing          |-> timingOf(i),
                        isLeftSide      |-> monitor.isLeftSide]]
         IN SelectSeq(all, LAMBDA item : item.timing # NULL)

\* The candidates feed f offers in a poll cycle at instant t.
Candidates(f, records, t) ==
    AudioEntries(LoadDisplayEntries(f, t), MonitorConfig[f],
                 CurrentTimeMinutes(t), TRUE, records, t)

-----------------------------------------------------------------------------
(* Global Announcement Queue (utils/audioPlaybackState)                    *)

QueueIds(queue) == {queue[i].entryId : i \in 1..Len(queue)}

isEntryAlreadyPlayed(played, entryId) == entryId \in played

\* Variant: only an entry that still waits in the queue is dropped.
EnqueueDroppedQueuedOnly(q, item) == item.entryId \in QueueIds(q.queue)

\* Variant: only the entries whose playback has started are dropped.
EnqueueDroppedPlayedOnly(q, item) == isEntryAlreadyPlayed(q.played, item.entryId)

\* Whether addToGlobalAudioQueue returns before it pushes the item.
EnqueueDropped(q, item) ==
    \/ isEntryAlreadyPlayed(q.played, item.entryId)
    \/ item.entryId \in q.processed
    \/ item.entryId \in QueueIds(q.queue)

\* Variant: the item is pushed but no timer is set.
addToGlobalAudioQueueNoTimer(q, item) ==
    IF EnqueueDropped(q, item)
    THEN q
    ELSE [q EXCEPT !.queue     = Append(q.queue, item),
                   !.processed = q.processed \cup {item.entryId}]

\* addToGlobalAudioQueue(item) on q = [queue, processed, played, timeout].
addToGlobalAudioQueue(q, item) ==
    IF EnqueueDropped(q, item)
    THEN q
    ELSE [q EXCEPT !.queue     = Append(q.queue, item),
                   !.processed = q.processed \cup {item.entryId},
                   !.timeout   = TRUE]

\* for (const audioEntry of audioEntries) addToGlobalAudioQueue(audioEntry)
RECURSIVE AddAll(_, _)
AddAll(q, items) ==
    IF items = << >> THEN q
    ELSE AddAll(addToGlobalAudioQueue(q, Head(items)), Tail(items))

\* JavaScript numbers are doubles, exact for integers below 2^53.  A priority
\* is kept as <<millions, rest>> with rest in 0..999999, so that products such
\* as 2879 * 1000000 are exact here as they are there.
Million == 1000000

WideAdd(w, n) == <<w[1] + (w[2] + n) \div Million, (w[2] + n) % Million>>

WideLess(x, y) == x[1] < y[1] \/ (x[1] = y[1] /\ x[2] < y[2])

\* Variant: the first level weighs 10000, as the second does.
getGlobalAudioPriorityFlatWeights(item) ==
    LET arrivalTimeMinutes == IF Falsy(item.arrivalDatetime) THEN 0 ELSE item.arrivalDatetime
        segmentPriority    == IF item.isMainEntry THEN 0 ELSE 1
        sidePriority       == IF item.isLeftSide # "undefined"
                              THEN (IF item.isLeftSide = "true" THEN 0 ELSE 1)
                              ELSE (IF item.monitorId = "1" THEN 0 ELSE 1)
    IN WideAdd(<<0, 0>>,
               arrivalTimeMinutes * 10000 + segmentPriority * 10000 + sidePriority * 100)

\* Variant: the key without its third level.
getGlobalAudioPriorityNoSide(item) ==
    LET arrivalTimeMinutes == IF Falsy(item.arrivalDatetime) THEN 0 ELSE item.arrivalDatetime
        segmentPriority    == IF item.isMainEntry THEN 0 ELSE 1
    IN WideAdd(<<arrivalTimeMinutes, 0>>, segmentPriority * 10000)

\* arrivalTimeMinutes * 1000000 + segmentPriority * 10000 + sidePriority * 100
getGlobalAudioPriority(item) ==
    LET arrivalTimeMinutes == IF Falsy(item.arrivalDatetime) THEN 0 ELSE item.arrivalDatetime
        segmentPriority    == IF item.isMainEntry THEN 0 ELSE 1
        sidePriority       == IF item.isLeftSide # "undefined"
                              THEN (IF item.isLeftSide = "true" THEN 0 ELSE 1)
                              ELSE (IF item.monitorId = "1" THEN 0 ELSE 1)
    IN WideAdd(<<arrivalTimeMinutes, 0>>, segmentPriority * 10000 + sidePriority * 100)

\* Variant: the sort is left out.
SortQueueUnsorted(queue) == queue

\* globalAudioQueue.sort((a, b) => priorityA - priorityB)
SortQueue(queue) ==
    StableSort(queue, LAMBDA a, b :
        WideLess(getGlobalAudioPriority(a), getGlobalAudioPriority(b)))

-----------------------------------------------------------------------------
(* Playback Engine (utils/audioPlaybackState)                              *)

IdleState ==
    [isPlaying |-> FALSE, currentEntryId |-> NoEntry, currentEntryArrivalTime |-> NoTime]

\* startPlayback's updatePlaybackState
PlayingState(item) ==
    [isPlaying |-> TRUE, currentEntryId |-> item.entryId,
     currentEntryArrivalTime |-> item.arrivalTime]

\* What stands for "no item": the queue is exhausted.
NoItem == [entryId |-> NoEntry]

\* Variant: the test of the flag is left out.
DrainNeverBlocked == FALSE

\* The first test of processGlobalAudioQueue: a drain is already running.
DrainBlocked == isProcessingGlobalQueue

\* One pass of the while loop up to its next await: the items shifted off and
\* skipped because already played, the item whose playback begins (or NoItem),
\* and the queue that remains.
DrainStep(queue, played) ==
    LET unplayed == {i \in 1..Len(queue) : ~isEntryAlreadyPlayed(played, queue[i].entryId)}
    IN IF unplayed = {}
       THEN [queue |-> << >>, item |-> NoItem]
       ELSE [queue |-> SubSeq(queue, MinOf(unplayed) + 1, Len(queue)),
             item  |-> queue[MinOf(unplayed)]]

\* The drain goes on from the head of its loop with `queue`; `others` are the
\* other suspended executions, `state` the playback state it finds.  Either the
\* next item starts (startPlayback, then the start chime is awaited) or the
\* loop ends and the flag is released.
ContinueDrain(queue, others, state) ==
    LET step == DrainStep(queue, playedEntries)
    IN /\ globalAudioQueue' = step.queue
       /\ IF step.item = NoItem
          THEN /\ isProcessingGlobalQueue' = FALSE
               /\ drains' = others
               /\ playedEntries' = playedEntries
               /\ globalPlaybackState' = state
          ELSE /\ isProcessingGlobalQueue' = TRUE
               /\ drains' = Append(others, [stage |-> "ChimeStart", item |-> step.item])
               /\ playedEntries' = playedEntries \cup {step.item.entryId}
               /\ globalPlaybackState' = PlayingState(step.item)

Others(i) == SubSeq(drains, 1, i - 1) \o SubSeq(drains, i + 1, Len(drains))

\* The record playGlobalAudio saves for an item at instant t.
RecordOf(item, t) ==
    [entryId |-> item.entryId, timingMinutes |-> item.timing,
     playedAt |-> t, arrivalTime |-> item.arrivalTime]

-----------------------------------------------------------------------------
(* The state machine                                                       *)

\* Every threshold some monitor is configured with.
Thresholds == UNION {Range(MonitorConfig[f].timings) : f \in Feeds}

CommitKeys == EntryIds \X Thresholds \X (0..MaxDay)

\* The usePolling instances of the page: the left and the right board.
Hooks == {"L", "R"}

\* A usePolling instance that has not started polling.
NoHook == [cleanup |-> "none", monitorKey |-> NoEntry, error |-> FALSE,
           displayEntries |-> << >>]

\* No monitor key has a polling state, no timer is pending, no cycle in flight.
DriverAtRest ==
    /\ pollingStates = [f \in Feeds |-> [isRunning |-> FALSE, callbacks |-> {}]]
    /\ pollTimers = << >>
    /\ pollCycles = << >>
    /\ hooks = [h \in Hooks |-> NoHook]

\* No function has been applied on its own.
NoCall == [fn |-> "none", applied |-> FALSE]

NoOutcome == [e \in EntryIds |-> "none"]

Init ==
    /\ now = MinOf(ClockTicks)
    /\ ledger = << >>
    /\ globalAudioQueue = << >>
    /\ isProcessingGlobalQueue = FALSE
    /\ processedEntries = {}
    /\ playedEntries = {}
    /\ batchProcessingTimeout = FALSE
    /\ globalPlaybackState = IdleState
    /\ drains = << >>
    /\ lastBatch = << >>
    /\ commitCount = [k \in CommitKeys |-> 0]
    /\ outcome = NoOutcome
    /\ input = NoCall
    /\ output = << >>
    /\ DriverAtRest

\* Time passes, by minutes: not while the 500 ms collection window is open.
AdvanceClock ==
    /\ ~batchProcessingTimeout
    /\ \E t \in ClockTicks : t > now /\ now' = t
    /\ UNCHANGED <<ledger, globalAudioQueue, isProcessingGlobalQueue, processedEntries,
                   playedEntries, batchProcessingTimeout, globalPlaybackState, drains,
                   lastBatch, commitCount, outcome, harness, driver>>

\* Variant: the detector records a candidate as played when it enqueues it.
PollSaving(f) ==
    LET candidates == Candidates(f, ledger, now)
        q == AddAll([queue |-> globalAudioQueue, processed |-> processedEntries,
                     played |-> playedEntries, timeout |-> batchProcessingTimeout],
                    candidates)
    IN /\ globalAudioQueue' = q.queue
       /\ processedEntries' = q.processed
       /\ batchProcessingTimeout' = q.timeout
       /\ ledger' = IF candidates = << >> THEN ledger
                    ELSE savePlaybackRecord(ledger, RecordOf(Head(candidates), now))
       /\ UNCHANGED <<now, isProcessingGlobalQueue, playedEntries,
                      globalPlaybackState, drains, lastBatch, commitCount, outcome,
                      harness, driver>>

\* A successful poll cycle of feed f: load, then enqueueForDisplay.
Poll(f) ==
    LET q == AddAll([queue |-> globalAudioQueue, processed |-> processedEntries,
                     played |-> playedEntries, timeout |-> batchProcessingTimeout],
                    Candidates(f, ledger, now))
    IN /\ globalAudioQueue' = q.queue
       /\ processedEntries' = q.processed
       /\ batchProcessingTimeout' = q.timeout
       /\ UNCHANGED <<now, ledger, isProcessingGlobalQueue, playedEntries,
                      globalPlaybackState, drains, lastBatch, commitCount, outcome,
                      harness, driver>>

\* The collection window elapses: processGlobalAudioQueue is called.
BatchTimerFires ==
    /\ batchProcessingTimeout
    /\ batchProcessingTimeout' = FALSE
    /\ IF DrainBlocked \/ Len(globalAudioQueue) = 0
       THEN UNCHANGED <<globalAudioQueue, isProcessingGlobalQueue, playedEntries,
                        globalPlaybackState, drains, lastBatch>>
       ELSE /\ lastBatch' = globalAudioQueue
            /\ ContinueDrain(SortQueue(globalAudioQueue), drains, globalPlaybackState)
    /\ UNCHANGED <<now, ledger, processedEntries, commitCount, outcome, harness, driver>>

\* The chime or the speech of execution i signals completion: the next stage.
StageCompletes(i) ==
    /\ drains[i].stage \in {"ChimeStart", "Speaking", "ChimeEnd"}
    /\ drains' = [drains EXCEPT ![i].stage =
                     CASE @ = "ChimeStart" -> "Speaking"
                       [] @ = "Speaking"   -> "ChimeEnd"
                       [] @ = "ChimeEnd"   -> "Saving"]
    /\ UNCHANGED <<now, ledger, globalAudioQueue, isProcessingGlobalQueue,
                   processedEntries, playedEntries, batchProcessingTimeout,
                   globalPlaybackState, lastBatch, commitCount, outcome, harness, driver>>

\* Variant: the catch without the finally block: endPlayback is not called.
StageFailsNoFinally(i) ==
    /\ drains[i].stage \in {"ChimeStart", "Speaking", "ChimeEnd"}
    /\ outcome' = [outcome EXCEPT ![drains[i].item.entryId] = "Aborted"]
    /\ ContinueDrain(globalAudioQueue, Others(i), globalPlaybackState)
    /\ UNCHANGED <<now, ledger, processedEntries, batchProcessingTimeout,
                   lastBatch, commitCount, harness, driver>>

\* Variant: the record is saved in the finally block, also after a failure.
StageFailsSaving(i) ==
    /\ drains[i].stage \in {"ChimeStart", "Speaking", "ChimeEnd"}
    /\ ledger' = savePlaybackRecord(ledger, RecordOf(drains[i].item, now))
    /\ commitCount' = [commitCount EXCEPT
                          ![<<drains[i].item.entryId, drains[i].item.timing, DayOf(now)>>] = @ + 1]
    /\ outcome' = [outcome EXCEPT ![drains[i].item.entryId] = "Aborted"]
    /\ ContinueDrain(globalAudioQueue, Others(i), IdleState)
    /\ UNCHANGED <<now, processedEntries, batchProcessingTimeout, lastBatch, harness, driver>>

\* Variant: the error is not caught; it ends the drain with the flag still set.
StageFailsHalting(i) ==
    /\ drains[i].stage \in {"ChimeStart", "Speaking", "ChimeEnd"}
    /\ outcome' = [outcome EXCEPT ![drains[i].item.entryId] = "Aborted"]
    /\ drains' = Others(i)
    /\ globalPlaybackState' = IdleState
    /\ UNCHANGED <<now, ledger, globalAudioQueue, isProcessingGlobalQueue,
                   processedEntries, playedEntries, batchProcessingTimeout,
                   lastBatch, commitCount, harness, driver>>

\* Variant: each stage has a catch of its own and the next stage follows.
StageFailsContinuing(i) ==
    /\ drains[i].stage \in {"ChimeStart", "Speaking", "ChimeEnd"}
    /\ outcome' = [outcome EXCEPT ![drains[i].item.entryId] = "Aborted"]
    /\ drains' = [drains EXCEPT ![i].stage =
                     CASE @ = "ChimeStart" -> "Speaking"
                       [] @ = "Speaking"   -> "ChimeEnd"
                       [] @ = "ChimeEnd"   -> "Saving"]
    /\ UNCHANGED <<now, ledger, globalAudioQueue, isProcessingGlobalQueue,
                   processedEntries, playedEntries, batchProcessingTimeout,
                   globalPlaybackState, lastBatch, commitCount, harness, driver>>

\* The chime or the speech of execution i fails: the catch of playGlobalAudio,
\* endPlayback in its finally, and the drain goes on.
StageFails(i) ==
    /\ drains[i].stage \in {"ChimeStart", "Speaking", "ChimeEnd"}
    /\ outcome' = [outcome EXCEPT ![drains[i].item.entryId] = "Aborted"]
    /\ ContinueDrain(globalAudioQueue, Others(i), IdleState)
    /\ UNCHANGED <<now, ledger, processedEntries, batchProcessingTimeout,
                   lastBatch, commitCount, harness, driver>>

\* Variant: the drain returns after the playback it began with.
RecordSavedEndsDrain(i) ==
    /\ drains[i].stage = "Saving"
    /\ ledger' = savePlaybackRecord(ledger, RecordOf(drains[i].item, now))
    /\ commitCount' = [commitCount EXCEPT
                          ![<<drains[i].item.entryId, drains[i].item.timing, DayOf(now)>>] = @ + 1]
    /\ outcome' = [outcome EXCEPT ![drains[i].item.entryId] = "Committed"]
    /\ drains' = Others(i)
    /\ isProcessingGlobalQueue' = FALSE
    /\ globalPlaybackState' = IdleState
    /\ UNCHANGED <<now, globalAudioQueue, playedEntries, processedEntries,
                   batchProcessingTimeout, lastBatch, harness, driver>>

\* After the end chime: the record is saved, endPlayback, and the drain goes on.
RecordSaved(i) ==
    /\ drains[i].stage = "Saving"
    /\ ledger' = savePlaybackRecord(ledger, RecordOf(drains[i].item, now))
    /\ commitCount' = [commitCount EXCEPT
                          ![<<drains[i].item.entryId, drains[i].item.timing, DayOf(now)>>] = @ + 1]
    /\ outcome' = [outcome EXCEPT ![drains[i].item.entryId] = "Committed"]
    /\ ContinueDrain(globalAudioQueue, Others(i), IdleState)
    /\ UNCHANGED <<now, processedEntries, batchProcessingTimeout, lastBatch, harness, driver>>

\* The page is reloaded: the module state is constructed anew, the store stays,
\* and startPolling sweeps the store.
Reload ==
    /\ ledger' = cleanupOldRecords(ledger, now)
    /\ globalAudioQueue' = << >>
    /\ isProcessingGlobalQueue' = FALSE
    /\ processedEntries' = {}
    /\ playedEntries' = {}
    /\ batchProcessingTimeout' = FALSE
    /\ globalPlaybackState' = IdleState
    /\ drains' = << >>
    /\ lastBatch' = << >>
    /\ outcome' = NoOutcome
    /\ UNCHANGED <<now, commitCount, harness, driver>>

Next ==
    \/ AdvanceClock
    \/ \E f \in Feeds : Poll(f)
    \/ BatchTimerFires
    \/ \E i \in 1..Len(drains) : StageCompletes(i)
    \/ \E i \in 1..Len(drains) : StageFails(i)
    \/ \E i \in 1..Len(drains) : RecordSaved(i)
    \/ Reload

Spec == Init /\ [][Next]_vars

-----------------------------------------------------------------------------
(* Properties of the queue and the engine                                  *)

ActiveStages == {"ChimeStart", "Speaking", "ChimeEnd"}

\* The entry waits in the queue or is in playback.
Pending(entryId) ==
    \/ entryId \in QueueIds(globalAudioQueue)
    \/ \E i \in 1..Len(drains) : drains[i].item.entryId = entryId

\* The queue ids after a poll cycle of feed f in the current state.
QueueIdsAfterPoll(f) ==
    QueueIds(AddAll([queue |-> globalAudioQueue, processed |-> processedEntries,
                     played |-> playedEntries, timeout |-> batchProcessingTimeout],
                    Candidates(f, ledger, now)).queue)

\* The records of the entry played on the current day.
TodayRecords(entryId) ==
    {r \in Range(ledger) : r.entryId = entryId /\ DayOf(r.playedAt) = DayOf(now)}

\* In this step the playback of execution i ends without its record being
\* due: it was in an active stage and its item is in no execution afterwards,
\* on a page that lives on (a reload empties playedEntries).
AbortedInStep(i) ==
    /\ drains[i].stage \in ActiveStages
    /\ drains[i].item.entryId \in playedEntries'
    /\ \A j \in 1..Len(drains') : drains'[j].item # drains[i].item

\* C1: of two items that were in the queue together when a drain began (accepted
\* within one collection window), the one with the smaller arrival instant is
\* started first: the later one is never started while the earlier one is not.
C1_EarlierArrivalPlaysFirst ==
    \A i, j \in 1..Len(lastBatch) :
        ( /\ lastBatch[i].arrivalDatetime < lastBatch[j].arrivalDatetime
          /\ lastBatch[j].entryId \in playedEntries )
        => lastBatch[i].entryId \in playedEntries

\* C1 witness: feed "1" enqueued instant 600 first, feed "2" instant 590 second,
\* and the drain plays the item with instant 590 while 600 still waits.
C1_Witness ==
    /\ Len(lastBatch) = 2
    /\ lastBatch[1].arrivalDatetime = 600 /\ lastBatch[1].monitorId = "1"
    /\ lastBatch[2].arrivalDatetime = 590 /\ lastBatch[2].monitorId = "2"
    /\ globalPlaybackState.currentEntryId = lastBatch[2].entryId
    /\ lastBatch[1].entryId \notin playedEntries
    /\ lastBatch[1].entryId \in QueueIds(globalAudioQueue)

\* C2: at most one execution is inside playGlobalAudio at any moment.
C2_OnePlaybackAtATime == Len(drains) <= 1

\* C2 witness: a collection-window timer fired while a drain was in progress
\* (an item accepted after the drain began still waits, its timer is spent)
\* and the playback in progress is the only one.
C2_Witness ==
    /\ Len(drains) = 1
    /\ isProcessingGlobalQueue
    /\ ~batchProcessingTimeout
    /\ \E k \in 1..Len(globalAudioQueue) : globalAudioQueue[k] \notin Range(lastBatch)

\* C3: no (entryId, threshold) pair is committed to the ledger twice on one
\* calendar day, whatever the polls, drains and reloads.
C3_CommittedOncePerDay == \A k \in CommitKeys : commitCount[k] <= 1

\* C3 witness: e1's threshold 30 was committed today, the page was reloaded,
\* and a poll cycle of feed "2" (which displays e1 and e2) has enqueued e2 only.
C3_Witness ==
    /\ commitCount[<<"e1", 30, DayOf(now)>>] = 1
    /\ CurrentTimeMinutes(now) = 570
    /\ outcome["e1"] = "none"
    /\ processedEntries = {"e2"}
    /\ TodayRecords("e2") = {}

\* C4 (as claimed): whenever a poll cycle offers, for an entry that has a larger
\* threshold committed today and is not pending, a smaller threshold that is
\* due, the item is accepted into the queue.
C4_SmallerThresholdAccepted ==
    \A f \in Feeds :
        \A item \in Range(Candidates(f, ledger, now)) :
            ( /\ \E r \in TodayRecords(item.entryId) : r.timingMinutes > item.timing
              /\ ~Pending(item.entryId) )
            => item.entryId \in QueueIdsAfterPoll(f)

\* C5: a step that ends a playback from an active stage (a failure) leaves the
\* ledger unchanged and the item Aborted; and a step that puts a new or changed
\* record into the ledger is the save of an execution that has passed the start
\* chime, the speech and the end chime, for that item's entry and threshold.
C5_RecordOnlyAfterAllStages ==
    [][ /\ \A i \in 1..Len(drains) :
               AbortedInStep(i) =>
                   /\ ledger' = ledger
                   /\ outcome'[drains[i].item.entryId] = "Aborted"
        /\ (Range(ledger') \ Range(ledger) # {}) =>
               \E i \in 1..Len(drains) :
                   /\ drains[i].stage = "Saving"
                   /\ Range(ledger') \ Range(ledger) \subseteq
                          {r \in Range(ledger') : r.entryId = drains[i].item.entryId}
                   /\ \A r \in Range(ledger') \ Range(ledger) :
                          r.timingMinutes <= drains[i].item.timing
      ]_vars

\* C5 witness: e2's playback was aborted and the ledger holds no record of it,
\* while e1's playback completed and is recorded.
C5_Witness ==
    /\ outcome["e2"] = "Aborted"
    /\ WithEntry(ledger, "e2") = << >>
    /\ outcome["e1"] = "Committed"
    /\ TodayRecords("e1") # {}

\* C6 (as claimed): whenever a poll cycle offers an entry whose playback was
\* aborted and that is not pending, the item is accepted into the queue.
C6_AbortedItemAcceptedAgain ==
    \A f \in Feeds :
        \A item \in Range(Candidates(f, ledger, now)) :
            ( /\ outcome[item.entryId] = "Aborted"
              /\ ~Pending(item.entryId) )
            => item.entryId \in QueueIdsAfterPoll(f)

\* C7: a step in which a playback fails either starts the playback of the item
\* at the head of the queue, or, the queue being empty, releases the flag.
C7_FailureDoesNotHaltDrain ==
    [][ \A i \in 1..Len(drains) :
            AbortedInStep(i) =>
                IF globalAudioQueue = << >>
                THEN ~isProcessingGlobalQueue' /\ drains' = << >>
                ELSE /\ isProcessingGlobalQueue'
                     /\ globalAudioQueue' = Tail(globalAudioQueue)
                     /\ \E j \in 1..Len(drains') :
                            drains'[j] = [stage |-> "ChimeStart",
                                          item  |-> Head(globalAudioQueue)]
                     /\ globalPlaybackState'.currentEntryId = Head(globalAudioQueue).entryId
      ]_vars

\* C7 witness: the first item of a batch of two was aborted, the item behind it
\* was played, and the flag is released with the queue empty.
C7_Witness ==
    /\ Len(lastBatch) = 2
    /\ outcome["e2"] = "Aborted"
    /\ outcome["e1"] \in {"Committed", "Aborted"}
    /\ globalAudioQueue = << >>
    /\ ~isProcessingGlobalQueue

-----------------------------------------------------------------------------
(* The ledger functions and the normalizer, applied on their own           *)

\* The variables of the queue and the engine, at rest.
EngineAtRest ==
    /\ globalAudioQueue = << >>
    /\ isProcessingGlobalQueue = FALSE
    /\ processedEntries = {}
    /\ playedEntries = {}
    /\ batchProcessingTimeout = FALSE
    /\ globalPlaybackState = IdleState
    /\ drains = << >>
    /\ lastBatch = << >>
    /\ commitCount = [k \in CommitKeys |-> 0]
    /\ outcome = NoOutcome

engine == <<globalAudioQueue, isProcessingGlobalQueue, processedEntries, playedEntries,
            batchProcessingTimeout, globalPlaybackState, drains, lastBatch, commitCount,
            outcome>>

\* The sequences over S of length at most n.
BoundedSeq(S, n) == UNION {[1..k -> S] : k \in 0..n}

\* The stores hasBeenPlayed is applied to hold at most MaxRecords records.
MaxRecords == 2

\* savePlaybackRecord is applied at most MaxSaves times.
MaxSaves == 3

\* The thresholds of the records: the set [30, 10, 0].
LedgerTimings == {0, 10, 30}

\* The thresholds asked for.
QueryTimings == {0, 5, 10, 30, 31}

\* The instants records are played at and queries are made at: 10:00 of each day.
LedgerInstants == {d * 1440 + 600 : d \in 0..MaxDay}

LedgerRecords ==
    [entryId : EntryIds, timingMinutes : LedgerTimings, playedAt : LedgerInstants,
     arrivalTime : {<<10, 0>>}]

\* hasBeenPlayed on any store of at most MaxRecords records.
InitPlayed ==
    /\ now \in LedgerInstants
    /\ ledger \in BoundedSeq(LedgerRecords, MaxRecords)
    /\ input = NoCall
    /\ output = << >>
    /\ EngineAtRest
    /\ DriverAtRest

QueryPlayed(entryId, timingMinutes) ==
    /\ input' = [fn |-> "hasBeenPlayed", applied |-> TRUE,
                 entryId |-> entryId, timingMinutes |-> timingMinutes]
    /\ output' = hasBeenPlayed(ledger, entryId, timingMinutes, now)
    /\ UNCHANGED <<now, ledger, engine, driver>>

NextPlayed == \E entryId \in EntryIds, timingMinutes \in QueryTimings :
                  QueryPlayed(entryId, timingMinutes)

SpecPlayed == InitPlayed /\ [][NextPlayed]_vars

\* savePlaybackRecord, called again and again on a store that starts empty.
\* output keeps the store before the last call and the thresholds saved so far.
InitSave ==
    /\ now = MinOf(LedgerInstants)
    /\ ledger = << >>
    /\ input = NoCall
    /\ output = [before |-> << >>, saved |-> [e \in EntryIds |-> {}], calls |-> 0]
    /\ EngineAtRest
    /\ DriverAtRest

SaveRecord(entryId, timingMinutes) ==
    LET record == [entryId |-> entryId, timingMinutes |-> timingMinutes,
                   playedAt |-> now, arrivalTime |-> <<10, 0>>]
    IN /\ output.calls < MaxSaves
       /\ ledger' = savePlaybackRecord(ledger, record)
       /\ input' = [fn |-> "savePlaybackRecord", applied |-> TRUE, record |-> record]
       /\ output' = [before |-> ledger,
                     saved  |-> [output.saved EXCEPT ![entryId] = @ \cup {timingMinutes}],
                     calls  |-> output.calls + 1]
       /\ UNCHANGED <<now, engine, driver>>

NextDay ==
    /\ \E t \in LedgerInstants : t > now /\ now' = t
    /\ UNCHANGED <<ledger, engine, harness, driver>>

NextSave ==
    \/ \E entryId \in EntryIds, timingMinutes \in LedgerTimings :
           SaveRecord(entryId, timingMinutes)
    \/ NextDay

SpecSave == InitSave /\ [][NextSave]_vars

\* normalizeEntries on one entry.
ArrivalTimes == {<<0, 0>>, <<0, 10>>, <<9, 50>>, <<23, 55>>}

FinishTimes == {NoTime, <<0, 5>>, <<0, 15>>, <<9, 55>>, <<10, 0>>, <<23, 50>>}

CurrentMinutes == {0, 10, 15, 16, 595, 596, 600, 1430, 1435}

InitNormalize ==
    /\ now = MinOf(ClockTicks)
    /\ ledger = << >>
    /\ input \in [fn : {"normalizeEntries"}, applied : {FALSE},
                  entry : [id : {"e1"}, order : {1},
                           arrivalTime : ArrivalTimes, finishTime : FinishTimes],
                  currentTimeMinutes : CurrentMinutes]
    /\ output = << >>
    /\ EngineAtRest
    /\ DriverAtRest

Normalize ==
    /\ ~input.applied
    /\ input' = [input EXCEPT !.applied = TRUE]
    /\ output' = normalizeEntries(<<input.entry>>, input.currentTimeMinutes)
    /\ UNCHANGED <<now, ledger, engine, driver>>

NextNormalize == Normalize

SpecNormalize == InitNormalize /\ [][NextNormalize]_vars

\* C8: hasBeenPlayed(entryId, t) is true exactly for the thresholds t >= m, m
\* the smallest threshold among the entry's records played today, and false
\* for every t when the entry has no record played today.
C8_PlayedFromMinimumUp ==
    (input.fn = "hasBeenPlayed") =>
        LET today == {r \in Range(ledger) :
                         r.entryId = input.entryId /\ DayOf(r.playedAt) = DayOf(now)}
        IN IF today = {}
           THEN output = FALSE
           ELSE \E m \in {r.timingMinutes : r \in today} :
                    /\ \A r \in today : m <= r.timingMinutes
                    /\ (input.timingMinutes >= m => output = TRUE)
                    /\ (input.timingMinutes < m => output = FALSE)

\* C8 witness: today's records of the entry hold the threshold 0 (and a larger
\* one), and the query for 30 answers true.
C8_Witness ==
    /\ input.fn = "hasBeenPlayed"
    /\ input.timingMinutes = 30
    /\ output = TRUE
    /\ {r.timingMinutes : r \in {x \in Range(ledger) :
            x.entryId = input.entryId /\ DayOf(x.playedAt) = DayOf(now)}} = {0, 10}

\* C9: after any sequence of saves the store holds at most one record per
\* entry, its threshold is the smallest ever saved for the entry, and the
\* last save left the records of the other entries as they were.
C9_OneRecordWithMinimum ==
    (input.fn = "savePlaybackRecord") =>
        /\ \A e \in EntryIds :
               /\ Len(WithEntry(ledger, e)) <= 1
               /\ (output.saved[e] = {}) = (WithEntry(ledger, e) = << >>)
               /\ output.saved[e] # {} =>
                      \A t \in output.saved[e] :
                          WithEntry(ledger, e)[1].timingMinutes <= t
               /\ output.saved[e] # {} =>
                      WithEntry(ledger, e)[1].timingMinutes \in output.saved[e]
        /\ \A e \in EntryIds \ {input.record.entryId} :
               WithEntry(ledger, e) = WithEntry(output.before, e)

\* C9 witness: 30 is saved for e1 after 0 was, the record keeps 0, and e2's
\* record is still there.
C9_Witness ==
    /\ input.fn = "savePlaybackRecord"
    /\ input.record.entryId = "e1" /\ input.record.timingMinutes = 30
    /\ 0 \in output.saved["e1"]
    /\ WithEntry(output.before, "e1") # << >>
    /\ WithEntry(ledger, "e1")[1].timingMinutes = 0
    /\ WithEntry(ledger, "e2") # << >>

\* C10: the arrival instant is the arrival's minutes since midnight plus 1440
\* exactly when the finish time (arrival + 5 when none is given) is strictly
\* earlier than the current minute; 00:10 with finish 00:15 at 23:50 gives 1450.
C10_NextDayWhenFinished ==
    (input.fn = "normalizeEntries" /\ input.applied) =>
        LET arrival == input.entry.arrivalTime[1] * 60 + input.entry.arrivalTime[2]
            finish  == IF input.entry.finishTime = NoTime
                       THEN arrival + 5
                       ELSE input.entry.finishTime[1] * 60 + input.entry.finishTime[2]
        IN /\ Len(output) = 1
           /\ (finish < input.currentTimeMinutes) =>
                  output[1].arrivalDatetime = arrival + 1440
           /\ (finish >= input.currentTimeMinutes) =>
                  output[1].arrivalDatetime = arrival
           /\ ( /\ input.entry.arrivalTime = <<0, 10>>
                /\ input.entry.finishTime = <<0, 15>>
                /\ input.currentTimeMinutes = 23 * 60 + 50 ) =>
                  output[1].arrivalDatetime = 10 + 1440

\* C10 witness: arrival 00:10, finish 00:15, evaluated at 23:50.
C10_Witness ==
    /\ input.fn = "normalizeEntries" /\ input.applied
    /\ input.entry.arrivalTime = <<0, 10>>
    /\ input.entry.finishTime = <<0, 15>>
    /\ input.currentTimeMinutes = 1430
    /\ output[1].arrivalDatetime = 1450

-----------------------------------------------------------------------------
(* The Threshold Detector, applied on its own                              *)

\* The stores the detector reads hold at most MaxDetectRecords records.
MaxDetectRecords == 1

\* The minutes of a day at which the detector runs.
DetectTicks == {565, 590, 600, 606}

\* The configured threshold lists, sorted and not.
DetectTimings == {<<10, 5, 0>>, <<30, 10, 0>>, <<0, 10, 30>>}

\* The schedule documents the detector is given.
DetectSchedules ==
    { << [id |-> "e1", order |-> 1, arrivalTime |-> <<10, 0>>, finishTime |-> <<10, 5>>] >>,
      << [id |-> "e1", order |-> 1, arrivalTime |-> <<10, 0>>, finishTime |-> NoTime],
         [id |-> "e2", order |-> 2, arrivalTime |-> <<9, 50>>, finishTime |-> <<10, 0>>] >> }

InitDetect ==
    /\ now \in {d * 1440 + t : d \in 0..MaxDay, t \in DetectTicks}
    /\ ledger \in BoundedSeq(LedgerRecords, MaxDetectRecords)
    /\ input \in [fn : {"enqueueForDisplay"}, applied : {FALSE},
                  entries : DetectSchedules, timings : DetectTimings]
    /\ output = << >>
    /\ EngineAtRest
    /\ DriverAtRest

\* One pass: load's selection of the display entries, then the audioEntries
\* enqueueForDisplay builds from them.
Detect ==
    /\ ~input.applied
    /\ input' = [input EXCEPT !.applied = TRUE]
    /\ output' =
          LET currentTimeMinutes == CurrentTimeMinutes(now)
              displayEntries ==
                  pickDisplayEntries(
                      sortEntries(normalizeEntries(input.entries, currentTimeMinutes)),
                      currentTimeMinutes, beforeMinutes, DisplayLimit)
              monitor == [id |-> "1", hasAudio |-> TRUE, timings |-> input.timings,
                          isLeftSide |-> "undefined"]
          IN [displayEntries |-> displayEntries,
              audioEntries   |-> AudioEntries(displayEntries, monitor, currentTimeMinutes,
                                              TRUE, ledger, now)]
    /\ UNCHANGED <<now, ledger, engine, driver>>

NextDetect == Detect

SpecDetect == InitDetect /\ [][NextDetect]_vars

\* The thresholds of the list that are due for an arrival instant.
DueTimings(timings, arrivalDatetime, currentTimeMinutes) ==
    {t \in Range(timings) : currentTimeMinutes >= arrivalDatetime - t}

\* C11: in one pass every display entry yields no candidate when none of the
\* configured thresholds is due or every due threshold is satisfied by a record
\* of today, and otherwise exactly one candidate, whose threshold is the
\* smallest due threshold not yet satisfied.
C11_OneCandidatePerEntry ==
    (input.fn = "enqueueForDisplay" /\ input.applied) =>
        \A k \in 1..Len(output.displayEntries) :
            LET entry == output.displayEntries[k]
                items == {i \in 1..Len(output.audioEntries) :
                             output.audioEntries[i].entryId = entry.id}
                due   == DueTimings(input.timings, entry.arrivalDatetime,
                                    CurrentTimeMinutes(now))
                open  == {t \in due : ~\E r \in TodayRecords(entry.id) : r.timingMinutes <= t}
            IN /\ Cardinality(items) <= 1
               /\ (open = {}) = (items = {})
               /\ \A i \in items :
                      /\ output.audioEntries[i].timing \in open
                      /\ \A t \in open : output.audioEntries[i].timing <= t

\* C11 witness: the thresholds [10, 5, 0] are all due and unplayed for e1, and
\* the pass yields the single candidate 0.
C11_Witness ==
    /\ input.fn = "enqueueForDisplay" /\ input.applied
    /\ input.timings = <<10, 5, 0>>
    /\ ledger = << >>
    /\ Len(output.displayEntries) = 1
    /\ DueTimings(input.timings, output.displayEntries[1].arrivalDatetime,
                  CurrentTimeMinutes(now)) = {10, 5, 0}
    /\ Len(output.audioEntries) = 1
    /\ output.audioEntries[1].entryId = "e1"
    /\ output.audioEntries[1].timing = 0

-----------------------------------------------------------------------------
(* More properties of the queue and the engine                             *)

\* The items of a queue that carry the entry id.
ItemsOf(queue, entryId) == SelectSeq(queue, LAMBDA item : item.entryId = entryId)

\* The queue after a poll cycle of feed f in the current state.
QueueAfterPoll(f) ==
    AddAll([queue |-> globalAudioQueue, processed |-> processedEntries,
            played |-> playedEntries, timeout |-> batchProcessingTimeout],
           Candidates(f, ledger, now)).queue

C13_WindowBeforeProcessing ==
    [][ /\ (Len(globalAudioQueue') > Len(globalAudioQueue)) => batchProcessingTimeout'
        /\ (~isProcessingGlobalQueue /\ isProcessingGlobalQueue') =>
               /\ batchProcessingTimeout /\ ~batchProcessingTimeout'
               /\ Len(drains') = 1
               /\ LET pass == <<drains'[1].item>> \o globalAudioQueue'
                  IN /\ Len(pass) = Len(globalAudioQueue)
                     /\ Range(pass) = Range(globalAudioQueue)
                     /\ \A i, j \in 1..Len(pass) :
                            i < j => ~WideLess(getGlobalAudioPriority(pass[j]),
                                              getGlobalAudioPriority(pass[i]))
      ]_vars

\* C13 witness: the window armed by feed "1" and re-armed by feed "2" has
\* elapsed on an idle engine, and the drain holds the items of both feeds.
C13_Witness ==
    /\ ~batchProcessingTimeout
    /\ isProcessingGlobalQueue
    /\ Len(drains) = 1 /\ drains[1].stage = "ChimeStart"
    /\ Len(lastBatch) = 2
    /\ {lastBatch[i].monitorId : i \in 1..Len(lastBatch)} = {"1", "2"}
    /\ Len(globalAudioQueue) = 1

-----------------------------------------------------------------------------
(* The queue and the engine, fed with items directly                       *)

\* The items the feeds offer: e1 and e2 arrive together, one on each side of
\* the split view; e3, which arrives earlier, is discovered by feed "2" as well.
QueueItems ==
    { [entryId |-> "e1", arrivalTime |-> <<10, 0>>, arrivalDatetime |-> 600,
       monitorId |-> "1", isMainEntry |-> TRUE, timing |-> 30, isLeftSide |-> "true"],
      [entryId |-> "e2", arrivalTime |-> <<10, 0>>, arrivalDatetime |-> 600,
       monitorId |-> "2", isMainEntry |-> TRUE, timing |-> 30, isLeftSide |-> "false"],
      [entryId |-> "e3", arrivalTime |-> <<9, 50>>, arrivalDatetime |-> 590,
       monitorId |-> "2", isMainEntry |-> TRUE, timing |-> 30, isLeftSide |-> "false"] }

\* enqueueForDisplay hands one item to addToGlobalAudioQueue.
Enqueue(item) ==
    LET q == addToGlobalAudioQueue(
                 [queue |-> globalAudioQueue, processed |-> processedEntries,
                  played |-> playedEntries, timeout |-> batchProcessingTimeout], item)
    IN /\ globalAudioQueue' = q.queue
       /\ processedEntries' = q.processed
       /\ batchProcessingTimeout' = q.timeout
       /\ UNCHANGED <<now, ledger, isProcessingGlobalQueue, playedEntries,
                      globalPlaybackState, drains, lastBatch, commitCount, outcome,
                      harness, driver>>

NextQueue ==
    \/ \E item \in QueueItems : Enqueue(item)
    \/ BatchTimerFires
    \/ \E i \in 1..Len(drains) : StageCompletes(i)
    \/ \E i \in 1..Len(drains) : StageFails(i)
    \/ \E i \in 1..Len(drains) : RecordSaved(i)

SpecQueue == Init /\ [][NextQueue]_vars

\* C14 (as claimed): in every step that starts the playback of an item of the
\* queue, that item has the smallest ordering key of all items in the queue.
C14_DequeueTakesSmallestKey ==
    [][ \A j \in 1..Len(drains') :
            ( /\ drains'[j].stage = "ChimeStart"
              /\ drains'[j].item \in Range(globalAudioQueue) )
            => \A k \in 1..Len(globalAudioQueue) :
                   ~WideLess(getGlobalAudioPriority(globalAudioQueue[k]),
                             getGlobalAudioPriority(drains'[j].item))
      ]_vars

\* C15: two queued items of different feeds never have equal ordering keys;
\* and when a drain begins, the pass it makes through the items collected in
\* the window is in strictly increasing key order, so the pass is determined
\* by the set of items and not by the order in which they were enqueued.
C15_KeyOrderIsTotal ==
    [][ /\ \A i, j \in 1..Len(globalAudioQueue) :
               globalAudioQueue[i].monitorId # globalAudioQueue[j].monitorId =>
                   getGlobalAudioPriority(globalAudioQueue[i])
                       # getGlobalAudioPriority(globalAudioQueue[j])
        /\ (~isProcessingGlobalQueue /\ isProcessingGlobalQueue') =>
               LET pass == <<drains'[1].item>> \o globalAudioQueue'
               IN /\ Range(pass) = Range(globalAudioQueue)
                  /\ \A i, j \in 1..Len(pass) :
                         i < j => WideLess(getGlobalAudioPriority(pass[i]),
                                          getGlobalAudioPriority(pass[j]))
      ]_vars

\* C15 witness: the right-hand feed's e2 was enqueued before the left-hand
\* feed's e1, both arriving at 10:00 in the main slot, and the drain plays e1
\* first while e2 waits.
C15_Witness ==
    /\ Len(lastBatch) = 2
    /\ lastBatch[1].entryId = "e2" /\ lastBatch[2].entryId = "e1"
    /\ lastBatch[1].arrivalDatetime = lastBatch[2].arrivalDatetime
    /\ Len(drains) = 1 /\ drains[1].item.entryId = "e1"
    /\ QueueIds(globalAudioQueue) = {"e2"}

-----------------------------------------------------------------------------
(* Poll Driver (hooks/usePolling)                                          *)

\* At most MaxChains poll chains (cycles in flight and timers pending) exist.
MaxChains == 2

\* let nextIntervalMs = 10000
FallbackIntervalMs == 10000

\* latestConfig.pollingIntervalSeconds: absent, zero, or five seconds.
PollingIntervals == {NULL, 0, 5}

\* What the fetches of one cycle yield: both documents, no configuration
\* (fetchAppConfig returns null), a configuration without monitors or speech
\* format, no schedule (fetchScheduleData returns null), or a schedule whose
\* entries fail validateScheduleEntries.
FetchOutcomes == {"ok", "configFailed", "configInvalid", "scheduleFailed", "scheduleInvalid"}

\* The monitor each board of the split view shows.
HookMonitor == [h \in Hooks |-> IF h = "L" THEN "1" ELSE "2"]

\* The side each board passes as isLeftSide.
HookSide == [h \in Hooks |-> IF h = "L" THEN "true" ELSE "false"]

\* PollingManager.isRunning(monitorKey)
isRunning(states, monitorKey) == states[monitorKey].isRunning

\* PollingManager.setTimeout(monitorKey, callback, delay): the new timer becomes
\* the state's timeoutId; a timer set before is not cleared, only forgotten.
SetPollTimeout(timers, states, monitorKey, hook, delay) ==
    IF isRunning(states, monitorKey)
    THEN Append([i \in 1..Len(timers) |->
                    IF timers[i].monitorKey = monitorKey
                    THEN [timers[i] EXCEPT !.registered = FALSE]
                    ELSE timers[i]],
                [monitorKey |-> monitorKey, hook |-> hook, delay |-> delay,
                 registered |-> TRUE])
    ELSE timers

\* PollingManager.stopPolling(monitorKey): clearTimeout(state.timeoutId) ...
StopPollingTimers(timers, monitorKey) ==
    SelectSeq(timers, LAMBDA t : ~(t.monitorKey = monitorKey /\ t.registered))

\* ... and pollingStates.delete(monitorKey).
StopPollingStates(states, monitorKey) ==
    [states EXCEPT ![monitorKey] = [isRunning |-> FALSE, callbacks |-> {}]]

\* scheduleNext up to `await load`: it returns at once when the key is not
\* running, and is suspended in the fetches otherwise.
BeginCycle(cycles, states, monitorKey, hook) ==
    IF isRunning(states, monitorKey)
    THEN Append(cycles, [monitorKey |-> monitorKey, hook |-> hook])
    ELSE cycles

\* A sequence without its i-th element.
Without(s, i) == SubSeq(s, 1, i - 1) \o SubSeq(s, i + 1, Len(s))

\* The candidates of a cycle of feed f run by board h.
CandidatesOf(f, h, records, t) ==
    AudioEntries(LoadDisplayEntries(f, t),
                 [MonitorConfig[f] EXCEPT !.isLeftSide = HookSide[h]],
                 CurrentTimeMinutes(t), TRUE, records, t)

\* Board h calls startPolling() for monitor f: the ledger sweep, the manager's
\* startPolling, and the first scheduleNext up to its await.
StartPolling(h, f) ==
    /\ hooks[h].cleanup = "none"
    /\ Len(pollCycles) + Len(pollTimers) < MaxChains
    /\ LET joined == isRunning(pollingStates, f)
           states == IF joined
                     THEN [pollingStates EXCEPT ![f].callbacks = @ \cup {h}]
                     ELSE [pollingStates EXCEPT
                              ![f] = [isRunning |-> TRUE, callbacks |-> {h}]]
       IN /\ pollingStates' = states
          /\ pollCycles' = BeginCycle(pollCycles, states, f, h)
          /\ hooks' = [hooks EXCEPT ![h].cleanup = IF joined THEN "joiner" ELSE "owner",
                                    ![h].monitorKey = f]
    /\ ledger' = cleanupOldRecords(ledger, now)
    /\ UNCHANGED <<now, engine, harness, pollTimers>>

\* Board h calls the cleanup startPolling returned.
StopPolling(h) ==
    /\ hooks[h].cleanup # "none"
    /\ LET monitorKey == hooks[h].monitorKey
           callbacks  == pollingStates[monitorKey].callbacks \ {h}
           stops      == hooks[h].cleanup = "owner" \/ callbacks = {}
       IN IF stops
          THEN /\ pollTimers' = StopPollingTimers(pollTimers, monitorKey)
               /\ pollingStates' = StopPollingStates(pollingStates, monitorKey)
          ELSE /\ pollTimers' = pollTimers
               /\ pollingStates' = [pollingStates EXCEPT ![monitorKey].callbacks = callbacks]
    /\ hooks' = [hooks EXCEPT ![h].cleanup = "none"]
    /\ UNCHANGED <<now, ledger, engine, harness, pollCycles>>

\* A timer of PollingManager.setTimeout fires: scheduleNext up to its await.
PollTimerFires(i) ==
    /\ pollTimers' = Without(pollTimers, i)
    /\ pollCycles' = BeginCycle(pollCycles, pollingStates,
                                pollTimers[i].monitorKey, pollTimers[i].hook)
    /\ UNCHANGED <<now, ledger, engine, harness, pollingStates, hooks>>

\* The timers after a cycle of (monitorKey, hook) has run to its end.
Rescheduled(monitorKey, hook, nextIntervalMs) ==
    SetPollTimeout(pollTimers, pollingStates, monitorKey, hook, nextIntervalMs)

\* Variant: after a failure no timer is set.
CycleFailedTimersNone(monitorKey, hook) == pollTimers

\* The timers after the catch block of scheduleNext.
CycleFailedTimers(monitorKey, hook) == Rescheduled(monitorKey, hook, FallbackIntervalMs)

\* Variant: >= 0 in place of > 0.
NextIntervalMsFromZero(pollingIntervalSeconds) ==
    IF pollingIntervalSeconds # NULL /\ pollingIntervalSeconds >= 0
    THEN pollingIntervalSeconds * 1000
    ELSE FallbackIntervalMs

\* nextIntervalMs after a successful load: the configured seconds when they
\* are a positive number (NULL stands for every value that is not a number).
NextIntervalMs(pollingIntervalSeconds) ==
    IF pollingIntervalSeconds # NULL /\ pollingIntervalSeconds > 0
    THEN pollingIntervalSeconds * 1000
    ELSE FallbackIntervalMs

\* Variant: enqueueForDisplay also runs when load threw.
CycleQueueAlways(f, h, fetched) ==
    AddAll([queue |-> globalAudioQueue, processed |-> processedEntries,
            played |-> playedEntries, timeout |-> batchProcessingTimeout],
           CandidatesOf(f, h, ledger, now))

\* The queue after the try block of scheduleNext: enqueueForDisplay is reached
\* only when `await load` resolved; a throw of load goes to the catch block.
CycleQueue(f, h, fetched) ==
    LET q == [queue |-> globalAudioQueue, processed |-> processedEntries,
              played |-> playedEntries, timeout |-> batchProcessingTimeout]
    IN IF fetched = "ok" THEN AddAll(q, CandidatesOf(f, h, ledger, now)) ELSE q

\* `input` keeps what the fetches of the last cycle yielded.
\* `await load` of cycle i settles and scheduleNext runs to its end: load
\* resolved (the states are set, enqueueForDisplay runs, the interval is taken
\* from the configuration) or threw (the catch block); then the next tick.
CycleCompletes(i, fetched, pollingIntervalSeconds) ==
    LET f == pollCycles[i].monitorKey
        h == pollCycles[i].hook
    IN /\ pollCycles' = Without(pollCycles, i)
       /\ input' = [fn |-> "scheduleNext", applied |-> TRUE, monitorKey |-> f,
                    hook |-> h, fetched |-> fetched,
                    pollingIntervalSeconds |->
                        IF fetched = "ok" THEN pollingIntervalSeconds ELSE NULL]
       /\ LET q == CycleQueue(f, h, fetched)
          IN /\ globalAudioQueue' = q.queue
             /\ processedEntries' = q.processed
             /\ batchProcessingTimeout' = q.timeout
       /\ IF fetched = "ok"
          THEN LET displayEntries == LoadDisplayEntries(f, now)
                   nextIntervalMs == NextIntervalMs(pollingIntervalSeconds)
               IN /\ hooks' = [hooks EXCEPT
                                 ![h].error = FALSE,
                                 ![h].displayEntries =
                                     [k \in 1..Len(displayEntries) |-> displayEntries[k].id]]
                  /\ pollTimers' = Rescheduled(f, h, nextIntervalMs)
          ELSE /\ hooks' = [hooks EXCEPT ![h].error = TRUE,
                                         ![h].displayEntries = << >>]
               /\ pollTimers' = CycleFailedTimers(f, h)
       /\ UNCHANGED <<now, ledger, isProcessingGlobalQueue, playedEntries,
                      globalPlaybackState, drains, lastBatch, commitCount, outcome,
                      output, pollingStates>>

NextDriver ==
    \/ \E h \in Hooks : StartPolling(h, HookMonitor[h])
    \/ \E h \in Hooks : StopPolling(h)
    \/ \E i \in 1..Len(pollTimers) : PollTimerFires(i)
    \/ \E i \in 1..Len(pollCycles), fetched \in FetchOutcomes,
          pollingIntervalSeconds \in PollingIntervals :
           CycleCompletes(i, fetched, pollingIntervalSeconds)
    \/ BatchTimerFires
    \/ \E i \in 1..Len(drains) : StageCompletes(i)
    \/ \E i \in 1..Len(drains) : RecordSaved(i)

SpecDriver == Init /\ [][NextDriver]_vars

-----------------------------------------------------------------------------
(* Properties of the Poll Driver                                           *)

\* The cycles of a monitor key that are in flight, and its pending timers.
CyclesOf(f) == {i \in 1..Len(pollCycles) : pollCycles[i].monitorKey = f}

TimersOf(f) == {i \in 1..Len(pollTimers) : pollTimers[i].monitorKey = f}

\* This step is the end of cycle i: its load settled and scheduleNext ran on.
CycleEndsInStep(i) == i \in 1..Len(pollCycles) /\ pollCycles' = Without(pollCycles, i)

\* C16 (as claimed): for every monitor key at most one poll cycle is in flight,
\* at most one timer is pending, and no timer is pending while a cycle is in
\* flight, whatever startPolling and cleanup calls were made.
C16_PollCyclesNeverOverlap ==
    \A f \in Feeds :
        /\ Cardinality(CyclesOf(f)) <= 1
        /\ Cardinality(TimersOf(f)) <= 1
        /\ Cardinality(CyclesOf(f)) + Cardinality(TimersOf(f)) <= 1

\* C17: a cycle of a running feed in which the configuration or the schedule
\* could not be fetched or validated ends with the error state set and the
\* display entries empty, and with a new timer for the feed whose delay is
\* the 10-second fallback.
C17_FailureReschedulesWithFallback ==
    [][ \A i \in 1..Len(pollCycles) :
            ( /\ CycleEndsInStep(i)
              /\ input'.fetched # "ok"
              /\ isRunning(pollingStates, pollCycles[i].monitorKey) )
            => /\ hooks'[pollCycles[i].hook].error
               /\ hooks'[pollCycles[i].hook].displayEntries = << >>
               /\ isRunning(pollingStates', pollCycles[i].monitorKey)
               /\ Len(pollTimers') = Len(pollTimers) + 1
               /\ pollTimers'[Len(pollTimers')] =
                      [monitorKey |-> pollCycles[i].monitorKey,
                       hook |-> pollCycles[i].hook,
                       delay |-> 10 * 1000, registered |-> TRUE]
      ]_vars

\* C17 witness: the left board's cycle found no schedule; its error state is
\* set and its next tick is pending with the fallback delay, after an earlier
\* cycle of the right board had taken five seconds from the configuration.
C17_Witness ==
    /\ input.fn = "scheduleNext" /\ input.fetched = "scheduleFailed" /\ input.hook = "L"
    /\ hooks["L"].error
    /\ \E i \in TimersOf("1") : pollTimers[i].delay = 10000 /\ pollTimers[i].registered
    /\ \E i \in TimersOf("2") : pollTimers[i].delay = 5000

\* What stopPolling does establish: a step in which a board stops its feed
\* removes the timer registered for the feed and nothing else from the pending
\* timers, and leaves the queue, the engine and the ledger as they were; and
\* queued items are never left without a pending collection window or a
\* running drain that will play them.
StopLeavesQueueAndEngine ==
    [][ /\ \A h \in Hooks :
               (hooks[h].cleanup # "none" /\ hooks'[h].cleanup = "none") =>
                   /\ pollTimers' = SelectSeq(pollTimers, LAMBDA t :
                          ~(t.monitorKey = hooks[h].monitorKey /\ t.registered))
                   /\ ~isRunning(pollingStates', hooks[h].monitorKey)
                   /\ UNCHANGED <<globalAudioQueue, processedEntries, playedEntries,
                                  isProcessingGlobalQueue, batchProcessingTimeout,
                                  globalPlaybackState, drains, ledger>>
        /\ globalAudioQueue' # << >> =>
               (batchProcessingTimeout' \/ isProcessingGlobalQueue')
      ]_vars

\* C18 (as claimed): a step in which a board stops its feed leaves no timer
\* of the feed pending, and leaves the queue as it was.
C18_StopCancelsPendingTimer ==
    [][ \A h \in Hooks :
            (hooks[h].cleanup # "none" /\ hooks'[h].cleanup = "none") =>
                /\ \A i \in 1..Len(pollTimers') :
                       pollTimers'[i].monitorKey # hooks[h].monitorKey
                /\ UNCHANGED globalAudioQueue
      ]_vars

\* C19 (as claimed): a cycle in which the configuration could not be fetched
\* still selects the display entries of its feed and hands its candidates to
\* the queue, as with the last known configuration.
C19_ConfigFailureReusesLastConfig ==
    [][ \A i \in 1..Len(pollCycles) :
            (CycleEndsInStep(i) /\ input'.fetched = "configFailed") =>
                LET f == pollCycles[i].monitorKey
                    h == pollCycles[i].hook
                    displayEntries == LoadDisplayEntries(f, now)
                IN /\ hooks'[h].displayEntries =
                          [k \in 1..Len(displayEntries) |-> displayEntries[k].id]
                   /\ globalAudioQueue' =
                          AddAll([queue |-> globalAudioQueue, processed |-> processedEntries,
                                  played |-> playedEntries,
                                  timeout |-> batchProcessingTimeout],
                                 CandidatesOf(f, h, ledger, now)).queue
      ]_vars

-----------------------------------------------------------------------------
(* The persisted store with arbitrary content (utils/audioPlaybackManager) *)

\* The stored arrays hold at most MaxStored elements.
MaxStored == 2

\* What Math.min gives for a threshold that is not a number (NaN), and what
\* JSON.stringify writes for it (null): a threshold no comparison is true of.
NotANumber == -2

\* An array element that is the JSON value null.
NullRecord ==
    [entryId |-> NoEntry, timingMinutes |-> NotANumber, playedAt |-> NULL,
     arrivalTime |-> NoTime]

\* The elements of a stored array: records as savePlaybackRecord writes them,
\* records whose entryId is missing or not a string (NoEntry), records whose
\* timingMinutes is missing or not a number, and null.
StoredRecords ==
    [entryId : {"e1", NoEntry}, timingMinutes : {0, 10, NotANumber},
     playedAt : LedgerInstants, arrivalTime : {<<10, 0>>}]
    \cup {NullRecord}

\* The values of localStorage['audioPlaybackRecords']: no item, a string that
\* is not JSON, the JSON values null, a number and an object, or an array.
StoredValues ==
    [kind : {"absent", "unparseable", "null", "number", "object"}, records : {<< >>}]
    \cup [kind : {"array"}, records : BoundedSeq(StoredRecords, MaxStored)]

EmptyArray == [kind |-> "array", records |-> << >>]

\* The store every record of which has a string entryId and a numeric threshold.
WellFormed(stored) ==
    \/ stored.kind = "absent"
    \/ /\ stored.kind = "array"
       /\ \A i \in 1..Len(stored.records) :
              /\ stored.records[i].entryId \in EntryIds
              /\ stored.records[i].timingMinutes \in Nat

\* getPlaybackRecords(): [] when there is no item or JSON.parse throws, else
\* whatever JSON.parse returns, array or not.
getPlaybackRecords(stored) ==
    IF stored.kind \in {"absent", "unparseable"} THEN EmptyArray ELSE stored

\* records.filter(r => r.<field> ...) runs: records is an array (null, a number
\* and an object have no filter) and no element is null.
CanFilter(records) ==
    /\ records.kind = "array"
    /\ \A i \in 1..Len(records.records) : records.records[i] # NullRecord

\* Math.min(...records.map(r => r.timingMinutes)).
MinTiming(records) ==
    IF NotANumber \in Timings(records) THEN NotANumber ELSE MinOf(Timings(records))

\* hasBeenPlayed(entryId, timingMinutes) on the stored value: it has no try
\* block, so a TypeError of records.filter leaves it as an exception.
hasBeenPlayedStored(stored, entryId, timingMinutes, t) ==
    LET records == getPlaybackRecords(stored)
        entryRecords == WithEntry(records.records, entryId)
        todayRecords == SelectSeq(entryRecords, LAMBDA r : DayOf(r.playedAt) = DayOf(t))
    IN IF ~CanFilter(records) THEN [threw |-> TRUE, value |-> FALSE]
       ELSE IF Len(entryRecords) = 0 THEN [threw |-> FALSE, value |-> FALSE]
       ELSE IF Len(todayRecords) = 0 THEN [threw |-> FALSE, value |-> FALSE]
       ELSE IF MinTiming(todayRecords) = NotANumber THEN [threw |-> FALSE, value |-> FALSE]
       ELSE [threw |-> FALSE, value |-> timingMinutes >= MinTiming(todayRecords)]

\* savePlaybackRecord(record) on the stored value: the catch block stores the
\* new record alone; the try block keeps the records of the other entries as
\* they are and merges the thresholds of this entry's records.
savePlaybackRecordStored(stored, record) ==
    LET records == getPlaybackRecords(stored)
        entryRecords == WithEntry(records.records, record.entryId)
    IN IF ~CanFilter(records) THEN [kind |-> "array", records |-> <<record>>]
       ELSE IF Len(entryRecords) > 0 /\ MinTiming(entryRecords) = NotANumber
       THEN [kind |-> "array",
             records |-> Append(WithoutEntry(records.records, record.entryId),
                                [record EXCEPT !.timingMinutes = NotANumber])]
       ELSE [kind |-> "array", records |-> savePlaybackRecord(records.records, record)]

\* cleanupOldRecords() on the stored value: the catch block stores '[]'.
cleanupOldRecordsStored(stored, t) ==
    LET records == getPlaybackRecords(stored)
    IN IF ~CanFilter(records) THEN EmptyArray
       ELSE [kind |-> "array", records |-> cleanupOldRecords(records.records, t)]

\* clearPlaybackRecords(): removeItem.
clearPlaybackRecords == [kind |-> "absent", records |-> << >>]

\* The timer callback of startPolling: cleanupOldRecords, then the store is
\* cleared if a record has no string entryId or no numeric timingMinutes.
InitialisationSweep(stored, t) ==
    LET cleaned == cleanupOldRecordsStored(stored, t)
        hasCorruptedData == \E i \in 1..Len(cleaned.records) :
            \/ cleaned.records[i].entryId = NoEntry
            \/ cleaned.records[i].timingMinutes = NotANumber
    IN IF hasCorruptedData THEN clearPlaybackRecords ELSE cleaned

\* The ledger operations applied to a store of any content. output keeps
\* whether the call ended in an exception and, for the reads, what it returned.
InitStore ==
    /\ now = MinOf(LedgerInstants)
    /\ ledger \in StoredValues
    /\ input = NoCall
    /\ output = [threw |-> FALSE, value |-> FALSE]
    /\ EngineAtRest
    /\ DriverAtRest

GetStored ==
    /\ input' = [fn |-> "getPlaybackRecords", applied |-> TRUE, stored |-> ledger]
    /\ output' = [threw |-> FALSE, value |-> getPlaybackRecords(ledger)]
    /\ UNCHANGED <<now, ledger, engine, driver>>

QueryStored(entryId, timingMinutes) ==
    /\ input' = [fn |-> "hasBeenPlayed", applied |-> TRUE, stored |-> ledger,
                 entryId |-> entryId, timingMinutes |-> timingMinutes]
    /\ output' = hasBeenPlayedStored(ledger, entryId, timingMinutes, now)
    /\ UNCHANGED <<now, ledger, engine, driver>>

SaveStored(entryId, timingMinutes) ==
    LET record == [entryId |-> entryId, timingMinutes |-> timingMinutes,
                   playedAt |-> now, arrivalTime |-> <<10, 0>>]
    IN /\ ledger.kind = "array" => Len(ledger.records) < MaxStored
       /\ ledger' = savePlaybackRecordStored(ledger, record)
       /\ input' = [fn |-> "savePlaybackRecord", applied |-> TRUE, stored |-> ledger,
                    record |-> record]
       /\ output' = [threw |-> FALSE, value |-> FALSE]
       /\ UNCHANGED <<now, engine, driver>>

CleanupStored ==
    /\ ledger' = cleanupOldRecordsStored(ledger, now)
    /\ input' = [fn |-> "cleanupOldRecords", applied |-> TRUE, stored |-> ledger]
    /\ output' = [threw |-> FALSE, value |-> FALSE]
    /\ UNCHANGED <<now, engine, driver>>

SweepStored ==
    /\ ledger' = InitialisationSweep(ledger, now)
    /\ input' = [fn |-> "sweep", applied |-> TRUE, stored |-> ledger]
    /\ output' = [threw |-> FALSE, value |-> FALSE]
    /\ UNCHANGED <<now, engine, driver>>

NextStore ==
    \/ GetStored
    \/ \E timingMinutes \in {0, 10} : QueryStored("e1", timingMinutes)
    \/ \E timingMinutes \in {0, 10} : SaveStored("e1", timingMinutes)
    \/ CleanupStored
    \/ SweepStored
    \/ NextDay

SpecStore == InitStore /\ [][NextStore]_vars

\* What the code does establish: getPlaybackRecords, savePlaybackRecord,
\* cleanupOldRecords and the sweep of startPolling end without an exception
\* on every store; the sweep leaves no item or an array of well-formed
\* records; and on such a store hasBeenPlayed ends without an exception too.
SweepRepairsStore ==
    /\ input.fn \in {"getPlaybackRecords", "savePlaybackRecord", "cleanupOldRecords", "sweep"}
           => ~output.threw
    /\ input.fn = "sweep" => WellFormed(ledger)
    /\ (input.fn = "hasBeenPlayed" /\ WellFormed(input.stored)) => ~output.threw

\* C20 (as claimed): whatever the store contains, no ledger operation
\* (getPlaybackRecords, hasBeenPlayed, savePlaybackRecord, cleanupOldRecords)
\* ends in an exception.
C20_CorruptStoreNeverThrows ==
    input.applied => ~output.threw

-----------------------------------------------------------------------------
(* One poll cycle under any monitor configuration                          *)

\* An absent optional field (monitor.speechFormat undefined).
Undefined == "undefined"

\* Speech templates: a literal word and a placeholder.  TopFormat is the
\* top-level speechFormat of the configuration, MonitorFormat a monitor's own.
TopFormat == <<"top", "{arrivalTime}">>

MonitorFormat == <<"monitor", "{arrivalTime}">>

\* formatSpeech(template, entry): every placeholder is replaced by the
\* entry's field of that name.
formatSpeech(template, entry) ==
    [i \in 1..Len(template) |->
        IF template[i] = "{arrivalTime}" THEN entry.arrivalTime ELSE <<template[i]>>]

\* The template enqueueForDisplay renders the speech text from.
SpeechTemplate(config, monitor) == config.speechFormat

\* Variant: the hasAudio flag is not looked at.
AudioEnabledAlways(monitor, isVisible) == isVisible

\* The first test of enqueueForDisplay (speech synthesis being supported).
AudioEnabled(monitor, isVisible) == monitor.hasAudio /\ isVisible

\* enqueueForDisplay's audioEntries with their speech text.
enqueueForDisplay(displayEntries, monitor, config, currentTimeMinutes, isVisible, records, t) ==
    IF ~AudioEnabled(monitor, isVisible) THEN << >>
    ELSE LET items == AudioEntries(displayEntries, [monitor EXCEPT !.hasAudio = TRUE],
                                   currentTimeMinutes, TRUE, records, t)
             entryOf(item) == CHOOSE e \in Range(displayEntries) :
                                  e.id = item.entryId /\ e.arrivalTime = item.arrivalTime
         IN [i \in 1..Len(items) |->
                [entryId |-> items[i].entryId, arrivalTime |-> items[i].arrivalTime,
                 arrivalDatetime |-> items[i].arrivalDatetime,
                 monitorId |-> items[i].monitorId, isMainEntry |-> items[i].isMainEntry,
                 timing |-> items[i].timing, isLeftSide |-> items[i].isLeftSide,
                 speechText |-> formatSpeech(SpeechTemplate(config, monitor),
                                             entryOf(items[i]))]]

\* The minutes of the day at which the cycle runs.
CycleTicks == {0, 3, 575, 600, 603, 606, 1420}

\* The schedule documents the cycle fetches.
CycleSchedules ==
    { << [id |-> "e1", order |-> 1, arrivalTime |-> <<10, 0>>, finishTime |-> <<10, 5>>],
         [id |-> "e2", order |-> 2, arrivalTime |-> <<0, 0>>, finishTime |-> <<0, 5>>] >>,
      << [id |-> "e1", order |-> 2, arrivalTime |-> <<10, 0>>, finishTime |-> NoTime],
         [id |-> "e2", order |-> 1, arrivalTime |-> <<10, 0>>, finishTime |-> <<10, 5>>],
         [id |-> "e3", order |-> 3, arrivalTime |-> <<9, 50>>, finishTime |-> <<9, 55>>] >> }

\* The monitor configurations the cycle fetches.
CycleMonitors ==
    [id : {"1"}, hasAudio : BOOLEAN, timings : {<<30, 0>>},
     isLeftSide : {"undefined"}, speechFormat : {Undefined, MonitorFormat}]

\* The stores the cycle finds: empty, or e1 announced at threshold 30 today.
CycleStores ==
    { << >>,
      << [entryId |-> "e1", timingMinutes |-> 30, playedAt |-> 570,
          arrivalTime |-> <<10, 0>>] >> }

\* One cycle of scheduleNext on a page whose engine is at rest.
InitCycle ==
    /\ now \in CycleTicks
    /\ ledger \in CycleStores
    /\ input \in [fn : {"scheduleNext"}, applied : {FALSE}, entries : CycleSchedules,
                  monitor : CycleMonitors, isVisible : BOOLEAN]
    /\ output = << >>
    /\ EngineAtRest
    /\ DriverAtRest

\* What load computes from a fetched schedule document at instant t.
LoadResult(entries, t) ==
    LET currentTimeMinutes == CurrentTimeMinutes(t)
        normalized == normalizeEntries(entries, currentTimeMinutes)
        sorted == sortEntries(normalized)
    IN [currentTimeMinutes |-> currentTimeMinutes, normalized |-> normalized,
        sorted |-> sorted,
        displayEntries |-> pickDisplayEntries(sorted, currentTimeMinutes,
                                              beforeMinutes, DisplayLimit)]

\* Variant: the detector is given every entry of the document.
DetectorEntriesAll(loaded) == loaded.sorted

\* The list scheduleNext hands to enqueueForDisplay: the one it publishes.
DetectorEntries(loaded) == loaded.displayEntries

\* load, setDisplayEntries and enqueueForDisplay of one cycle.
RunCycle ==
    LET loaded == LoadResult(input.entries, now)
        config == [speechFormat |-> TopFormat]
        audioEntries == enqueueForDisplay(DetectorEntries(loaded), input.monitor, config,
                                          loaded.currentTimeMinutes, input.isVisible,
                                          ledger, now)
        q == AddAll([queue |-> globalAudioQueue, processed |-> processedEntries,
                     played |-> playedEntries, timeout |-> batchProcessingTimeout],
                    audioEntries)
    IN /\ ~input.applied
       /\ input' = [input EXCEPT !.applied = TRUE]
       /\ output' = [normalized |-> loaded.normalized,
                     displayEntries |-> loaded.displayEntries, audioEntries |-> audioEntries,
                     reruns |-> 0, rerunEntries |-> << >>, ledgerAtRerun |-> << >>]
       /\ globalAudioQueue' = q.queue
       /\ processedEntries' = q.processed
       /\ batchProcessingTimeout' = q.timeout
       /\ UNCHANGED <<now, ledger, driver, isProcessingGlobalQueue, playedEntries,
                      globalPlaybackState, drains, lastBatch, commitCount, outcome>>

\* The same cycle once more, at the same minute, after the engine has played
\* and committed what the first one enqueued.
RerunCycle ==
    LET loaded == LoadResult(input.entries, now)
        config == [speechFormat |-> TopFormat]
        audioEntries == enqueueForDisplay(DetectorEntries(loaded), input.monitor, config,
                                          loaded.currentTimeMinutes, input.isVisible,
                                          ledger, now)
        q == AddAll([queue |-> globalAudioQueue, processed |-> processedEntries,
                     played |-> playedEntries, timeout |-> batchProcessingTimeout],
                    audioEntries)
    IN /\ input.applied
       /\ output.reruns = 0
       /\ globalAudioQueue = << >> /\ drains = << >> /\ ~batchProcessingTimeout
       /\ output' = [output EXCEPT !.reruns = 1, !.rerunEntries = audioEntries,
                                   !.ledgerAtRerun = ledger]
       /\ globalAudioQueue' = q.queue
       /\ processedEntries' = q.processed
       /\ batchProcessingTimeout' = q.timeout
       /\ UNCHANGED <<now, ledger, driver, input, isProcessingGlobalQueue, playedEntries,
                      globalPlaybackState, drains, lastBatch, commitCount, outcome>>

NextCycle ==
    \/ RunCycle
    \/ BatchTimerFires
    \/ \E i \in 1..Len(drains) : StageCompletes(i)
    \/ \E i \in 1..Len(drains) : RecordSaved(i)
    \/ RerunCycle

SpecCycle == InitCycle /\ [][NextCycle]_vars

\* C21: a cycle of a feed whose monitor configuration has hasAudio false, or
\* whose panel is not visible, adds no item to the queue.
C21_SilentFeedNeverEnqueues ==
    (input.fn = "scheduleNext" /\ input.applied
        /\ (~input.monitor.hasAudio \/ ~input.isVisible))
    => /\ globalAudioQueue = << >>
       /\ ~batchProcessingTimeout

\* C21 witness: the cycle of a monitor with hasAudio false displays an entry
\* whose threshold is due, and the queue stays empty.
C21_Witness ==
    /\ input.fn = "scheduleNext" /\ input.applied
    /\ ~input.monitor.hasAudio /\ input.isVisible
    /\ Len(output.displayEntries) > 0
    /\ CurrentTimeMinutes(now) >= output.displayEntries[1].arrivalDatetime - 30
    /\ CurrentTimeMinutes(now) <= output.displayEntries[1].arrivalDatetime
    /\ globalAudioQueue = << >>

\* C22: once the candidates of a cycle have been played and committed, the
\* identical cycle at the same minute yields no candidate and no accepted
\* enqueue, and nothing more is written to the ledger.
C22_RerunYieldsNothing ==
    (input.fn = "scheduleNext" /\ input.applied /\ output.reruns = 1) =>
        /\ output.rerunEntries = << >>
        /\ globalAudioQueue = << >> /\ ~batchProcessingTimeout /\ drains = << >>
        /\ ledger = output.ledgerAtRerun

\* C22 witness: the first cycle gave two candidates, both were played and
\* committed, and the cycle has been run again.
C22_Witness ==
    /\ input.fn = "scheduleNext" /\ input.applied /\ output.reruns = 1
    /\ Len(output.audioEntries) = 2
    /\ \A i \in 1..2 : \E r \in Range(ledger) :
           /\ r.entryId = output.audioEntries[i].entryId
           /\ r.timingMinutes = output.audioEntries[i].timing
           /\ r.playedAt = now
    /\ output.rerunEntries = << >>

\* C23 (as claimed): the speech text of every item a cycle builds is rendered
\* from the monitor's own speechFormat when the monitor has one, and from the
\* top-level speechFormat otherwise.
C23_MonitorSpeechFormatFirst ==
    (input.fn = "scheduleNext" /\ input.applied) =>
        \A i \in 1..Len(output.audioEntries) :
            LET item == output.audioEntries[i]
                template == IF input.monitor.speechFormat # Undefined
                            THEN input.monitor.speechFormat
                            ELSE TopFormat
            IN \E e \in Range(output.displayEntries) :
                   /\ e.id = item.entryId
                   /\ item.speechText = formatSpeech(template, e)

\* C24: every item a cycle hands to the queue belongs to an entry of the
\* display entries the same cycle publishes.
C24_AnnouncedEntriesAreDisplayed ==
    (input.fn = "scheduleNext" /\ input.applied) =>
        /\ \A i \in 1..Len(output.audioEntries) :
               \E k \in 1..Len(output.displayEntries) :
                   /\ output.displayEntries[k].id = output.audioEntries[i].entryId
                   /\ output.displayEntries[k].arrivalDatetime =
                          output.audioEntries[i].arrivalDatetime
        /\ Len(output.audioEntries) <= Len(output.displayEntries)

\* C24 witness: three entries are inside the look-ahead window with a due
\* threshold, two of them are published, and the two items are theirs.
C24_Witness ==
    /\ input.fn = "scheduleNext" /\ input.applied
    /\ Len(output.normalized) = 3
    /\ \A k \in 1..3 : CurrentTimeMinutes(now) >= output.normalized[k].arrivalDatetime - 30
    /\ Len(output.displayEntries) = 2
    /\ Len(output.audioEntries) = 2
    /\ {output.audioEntries[i].entryId : i \in 1..2} = {"e3", "e2"}

-----------------------------------------------------------------------------
(* The ordering pass, applied on its own                                   *)

\* The arrival instants of the items ordered: the ends of 0..2879, and
\* neighbours around 10:00 and around midnight.
OrderInstants == {0, 599, 600, 1439, 1440, 2879}

\* The items the pass is given.
OrderItems ==
    [entryId : {"e1"}, arrivalTime : {<<10, 0>>}, arrivalDatetime : OrderInstants,
     monitorId : {"1", "2"}, isMainEntry : BOOLEAN, timing : {0},
     isLeftSide : {"true", "false", "undefined"}]

InitOrder ==
    /\ now = MinOf(ClockTicks)
    /\ ledger = << >>
    /\ input \in [fn : {"sort"}, applied : {FALSE}, queue : [1..2 -> OrderItems]]
    /\ output = << >>
    /\ EngineAtRest
    /\ DriverAtRest

\* processGlobalAudioQueue's sort of the queue.
Order ==
    /\ ~input.applied
    /\ input' = [input EXCEPT !.applied = TRUE]
    /\ output' = SortQueue(input.queue)
    /\ UNCHANGED <<now, ledger, engine, driver>>

NextOrder == Order

SpecOrder == InitOrder /\ [][NextOrder]_vars

\* The three levels as the claim words them.
SlotOf(item) == IF item.isMainEntry THEN 0 ELSE 1

SideOf(item) ==
    IF item.isLeftSide = "true" THEN 0
    ELSE IF item.isLeftSide = "false" THEN 1
    ELSE IF item.monitorId = "1" THEN 0 ELSE 1

LexBefore(a, b) ==
    \/ a.arrivalDatetime < b.arrivalDatetime
    \/ a.arrivalDatetime = b.arrivalDatetime /\ SlotOf(a) < SlotOf(b)
    \/ a.arrivalDatetime = b.arrivalDatetime /\ SlotOf(a) = SlotOf(b) /\ SideOf(a) < SideOf(b)

\* C25: the pass leaves the items in ascending lexicographic order of arrival
\* instant, slot (primary first) and side (left first, or monitor "1" first
\* without the flag), and the numeric priority of two items compares as the
\* lexicographic order does.
C25_PriorityIsLexicographic ==
    (input.fn = "sort" /\ input.applied) =>
        /\ ~LexBefore(output[2], output[1])
        /\ (output # input.queue) => LexBefore(input.queue[2], input.queue[1])
        /\ \A i, j \in 1..2 :
               WideLess(getGlobalAudioPriority(input.queue[i]),
                        getGlobalAudioPriority(input.queue[j]))
                   = LexBefore(input.queue[i], input.queue[j])

\* C25 witness: a secondary-slot item arriving at 09:59 was queued behind a
\* primary-slot item arriving at 10:00, and the pass puts it first.
C25_Witness ==
    /\ input.fn = "sort" /\ input.applied
    /\ input.queue[1].arrivalDatetime = 600 /\ input.queue[1].isMainEntry
    /\ input.queue[2].arrivalDatetime = 599 /\ ~input.queue[2].isMainEntry
    /\ output = <<input.queue[2], input.queue[1]>>

-----------------------------------------------------------------------------
(* The stages of one item                                                  *)

\* The stage that follows the completion of a stage.
StageAfter ==
    [stage \in {"ChimeStart", "Speaking", "ChimeEnd"} |->
        CASE stage = "ChimeStart" -> "Speaking"
          [] stage = "Speaking"   -> "ChimeEnd"
          [] stage = "ChimeEnd"   -> "Saving"]

\* C26: an item's playback begins with the start chime; each step takes it
\* to the next stage only (start chime, speech, end chime, then the record);
\* the ledger changes only when an item whose end chime has completed leaves
\* the engine, by that item's record; and an item that fails in an active
\* stage leaves the engine as Aborted with no stage after it and no record.
\* (A reload of the page ends every playback and is not a step of the engine.)
C26_StagesInOrder ==
    [][ LET reloaded == Reload
            HereAfter(item) == {j \in 1..Len(drains') : drains'[j].item = item}
            HereBefore(item) == {i \in 1..Len(drains) : drains[i].item = item}
        IN ~reloaded =>
           /\ \A j \in 1..Len(drains') :
                  HereBefore(drains'[j].item) = {} => drains'[j].stage = "ChimeStart"
           /\ \A i \in 1..Len(drains) :
                  LET d == drains[i]
                  IN /\ \A j \in HereAfter(d.item) :
                            \/ drains'[j].stage = d.stage
                            \/ /\ d.stage \in ActiveStages
                               /\ drains'[j].stage = StageAfter[d.stage]
                               /\ outcome'[d.item.entryId] # "Aborted"
                     /\ (HereAfter(d.item) = {} /\ d.stage = "Saving") =>
                            /\ outcome'[d.item.entryId] = "Committed"
                            /\ ledger' = savePlaybackRecord(ledger, RecordOf(d.item, now))
                     /\ (HereAfter(d.item) = {} /\ d.stage \in ActiveStages) =>
                            /\ outcome'[d.item.entryId] = "Aborted"
                            /\ ledger' = ledger
           /\ ledger' # ledger =>
                  \E i \in 1..Len(drains) :
                      drains[i].stage = "Saving" /\ HereAfter(drains[i].item) = {}
      ]_vars

\* C26 witness: one item failed in an active stage and left no record, and the
\* next item has gone through its stages and is committed.
C26_Witness ==
    /\ \E e \in EntryIds :
           /\ outcome[e] = "Aborted"
           /\ \A r \in Range(ledger) : r.entryId # e
    /\ \E e \in EntryIds :
           /\ outcome[e] = "Committed"
           /\ \E r \in Range(ledger) : r.entryId = e /\ r.playedAt = now
    /\ drains = << >>

-----------------------------------------------------------------------------
(* Properties of the Display Selector                                      *)

\* The normalized entries inside the look-ahead window at the cycle's minute.
InWindow(entries, currentTimeMinutes) ==
    {k \in 1..Len(entries) : entries[k].arrivalDatetime - beforeMinutes <= currentTimeMinutes}

\* The selection is the first `limit` of the candidates `among`, by arrival
\* instant and then by the order field.
IsSelectionOf(displayEntries, entries, among) ==
    /\ Len(displayEntries) =
           (IF Cardinality(among) < DisplayLimit THEN Cardinality(among) ELSE DisplayLimit)
    /\ \A i \in 1..Len(displayEntries) : \E k \in among : entries[k] = displayEntries[i]
    /\ \A i, j \in 1..Len(displayEntries) :
           i < j => ~EntryBefore(displayEntries[j], displayEntries[i])
    /\ \A k \in among :
           (\A i \in 1..Len(displayEntries) : displayEntries[i] # entries[k])
               => \A i \in 1..Len(displayEntries) : ~EntryBefore(entries[k], displayEntries[i])

\* What the selector does establish: the selection is as described among the
\* entries inside the window whose arrival instant is not 0.
SelectionExceptInstantZero ==
    (input.fn = "scheduleNext" /\ input.applied) =>
        IsSelectionOf(output.displayEntries, output.normalized,
                      {k \in InWindow(output.normalized, CurrentTimeMinutes(now)) :
                           output.normalized[k].arrivalDatetime # 0})

\* C27 (as claimed): pickDisplayEntries after sortEntries returns at most
\* `limit` entries, the ones with the smallest arrival instants among those
\* inside the look-ahead window, in ascending order of arrival instant and,
\* for equal instants, of the order field.
C27_SelectionIsSmallestInWindow ==
    (input.fn = "scheduleNext" /\ input.applied) =>
        IsSelectionOf(output.displayEntries, output.normalized,
                      InWindow(output.normalized, CurrentTimeMinutes(now)))

\* C28 (as claimed): every normalized entry inside the look-ahead window is
\* displayed unless the display count cuts it off, and a displayed entry with
\* a due threshold is announced, also when its arrival instant is 0.
C28_EntryInWindowIsKept ==
    (input.fn = "scheduleNext" /\ input.applied) =>
        LET currentTimeMinutes == CurrentTimeMinutes(now)
            among == InWindow(output.normalized, currentTimeMinutes)
        IN \A k \in among :
               LET e == output.normalized[k]
               IN Cardinality(among) <= DisplayLimit =>
                      /\ \E i \in 1..Len(output.displayEntries) : output.displayEntries[i] = e
                      /\ ( /\ input.monitor.hasAudio /\ input.isVisible
                           /\ ledger = << >>
                           /\ currentTimeMinutes <= e.arrivalDatetime
                           /\ \E t \in Range(input.monitor.timings) :
                                  currentTimeMinutes >= e.arrivalDatetime - t )
                         => \E i \in 1..Len(output.audioEntries) :
                                output.audioEntries[i].entryId = e.id

\* The finish time normalizeEntries compares with the current minute.
FinishOf(entry) ==
    IF entry.finishTime # NoTime
    THEN ParseMinutes(entry.finishTime)
    ELSE ParseMinutes(entry.arrivalTime) + 5

\* The entries a cycle selected: for display, and for announcement.
SelectedEntries ==
    Range(output.displayEntries)
    \cup {e \in Range(output.displayEntries) :
              \E i \in 1..Len(output.audioEntries) : output.audioEntries[i].entryId = e.id}

\* C29 (as claimed): every entry selected for display and announcement has
\* an arrival instant not before the current minute.
C29_SelectedNotBeforeNow ==
    (input.fn = "scheduleNext" /\ input.applied) =>
        \A e \in SelectedEntries : e.arrivalDatetime >= CurrentTimeMinutes(now)

\* C29 (as amended): every selected entry has an arrival instant not before
\* the current minute or a finish time not before it; an entry whose finish
\* time is before the current minute is selected only with its instant of the
\* next day.
C29_SelectedNotFinished ==
    (input.fn = "scheduleNext" /\ input.applied) =>
        \A e \in SelectedEntries :
            /\ e.arrivalDatetime >= CurrentTimeMinutes(now)
                   \/ FinishOf(e) >= CurrentTimeMinutes(now)
            /\ FinishOf(e) < CurrentTimeMinutes(now)
                   => e.arrivalDatetime = ParseMinutes(e.arrivalTime) + 24 * 60

\* C29 witness: at 10:03 the entry that arrived at 10:00 and finishes at 10:05
\* is displayed and announced.
C29_Witness ==
    /\ input.fn = "scheduleNext" /\ input.applied
    /\ CurrentTimeMinutes(now) = 603
    /\ \E e \in Range(output.displayEntries) :
           /\ e.arrivalDatetime = 600 /\ FinishOf(e) = 605
           /\ \E i \in 1..Len(output.audioEntries) : output.audioEntries[i].entryId = e.id

-----------------------------------------------------------------------------
(* The delay of the next tick                                              *)

\* C30: when a cycle of a running feed ends, the next tick is scheduled
\* after pollingIntervalSeconds * 1000 ms if the cycle succeeded and the
\* fetched configuration gives a positive number, and after 10000 ms in
\* every other case, a failed cycle included.
C30_NextTickDelay ==
    [][ \A i \in 1..Len(pollCycles) :
            ( /\ CycleEndsInStep(i)
              /\ isRunning(pollingStates, pollCycles[i].monitorKey) )
            => /\ Len(pollTimers') = Len(pollTimers) + 1
               /\ pollTimers'[Len(pollTimers')].monitorKey = pollCycles[i].monitorKey
               /\ pollTimers'[Len(pollTimers')].delay =
                      IF input'.fetched = "ok" /\ input'.pollingIntervalSeconds \in Nat \ {0}
                      THEN input'.pollingIntervalSeconds * 1000
                      ELSE 10000
      ]_vars

\* C30 witness: three ticks are pending or were taken: one after a cycle
\* whose configuration gave 5 seconds, and one after a successful cycle whose
\* configuration gave 0.
C30_Witness ==
    /\ input.fn = "scheduleNext" /\ input.fetched = "ok"
    /\ input.pollingIntervalSeconds = 0
    /\ \E i \in TimersOf(input.monitorKey) :
           /\ pollTimers[i].delay = 10000
           /\ pollTimers[i].hook = input.hook
    /\ \E f \in Feeds \ {input.monitorKey} :
           \E i \in TimersOf(f) : pollTimers[i].delay = 5000

-----------------------------------------------------------------------------
(* A cycle whose schedule fetch fails                                      *)

\* C31: a cycle in which the schedule could not be fetched or parsed leaves
\* the queue, the set of accepted entries, the collection window and the
\* ledger as they were, and scheduleNext still runs to its end: the error is
\* caught, so the next tick of a running feed is set.
C31_ScheduleFailureYieldsNoData ==
    [][ \A i \in 1..Len(pollCycles) :
            (CycleEndsInStep(i) /\ input'.fetched = "scheduleFailed") =>
                /\ UNCHANGED <<globalAudioQueue, processedEntries,
                               batchProcessingTimeout, ledger, playedEntries, drains>>
                /\ isRunning(pollingStates, pollCycles[i].monitorKey) =>
                       \E k \in 1..Len(pollTimers') :
                           /\ pollTimers'[k].monitorKey = pollCycles[i].monitorKey
                           /\ pollTimers'[k].registered
      ]_vars

\* C31 witness: a cycle found no schedule at a moment when its feed had an
\* announcement due that the queue had never accepted; the queue is empty.
C31_Witness ==
    /\ input.fn = "scheduleNext" /\ input.fetched = "scheduleFailed"
    /\ CandidatesOf(input.monitorKey, input.hook, ledger, now) # << >>
    /\ globalAudioQueue = << >>
    /\ processedEntries = {}
    /\ hooks[input.hook].error

-----------------------------------------------------------------------------
(* Who writes the ledger                                                   *)

\* C32: a record that is in the ledger after a step and was not in it before
\* (a new record, or a record with a changed threshold or instant) is the
\* record of an execution that was past its end chime and ends in this step;
\* a step that adds an item to the queue (the detector's reads and
\* addToGlobalAudioQueue) leaves the ledger as it was; and the sweep of
\* startPolling only removes records.
C32_OnlyEngineWritesRecords ==
    [][ LET reloaded == Reload
        IN /\ \A r \in Range(ledger') \ Range(ledger) :
                  \E i \in 1..Len(drains) :
                      /\ drains[i].stage = "Saving"
                      /\ drains[i].item.entryId = r.entryId
                      /\ r.playedAt = now
                      /\ ~reloaded
           /\ Len(globalAudioQueue') > Len(globalAudioQueue) => ledger' = ledger
           /\ reloaded => Range(ledger') \subseteq Range(ledger)
      ]_vars

\* C32 witness: a record of e1 was committed on day 0 and the sweep has removed
\* it; on day 1 the detector has enqueued an item while the ledger holds the
\* record of another entry, and the ledger holds nothing of e1.
C32_Witness ==
    /\ commitCount[<<"e1", 30, 0>>] > 0
    /\ DayOf(now) = 1
    /\ WithEntry(ledger, "e1") = << >>
    /\ ledger # << >>
    /\ globalAudioQueue # << >>

-----------------------------------------------------------------------------
(* cleanupOldRecords on stores of any age                                  *)

\* The instants the records were played at, seen from 10:00 of day 1: two days,
\* a day and a minute, exactly a day, a minute less than a day, a minute, and
\* no time ago.
CleanupInstants == {0, 599, 600, 601, 2039, 2040}

CleanupRecords ==
    [entryId : {"e1", "e2"}, timingMinutes : {10}, playedAt : CleanupInstants,
     arrivalTime : {<<10, 0>>}]

InitCleanup ==
    /\ now = 2040
    /\ ledger \in BoundedSeq(CleanupRecords, MaxRecords)
    /\ input = NoCall
    /\ output = [before |-> << >>]
    /\ EngineAtRest
    /\ DriverAtRest

Cleanup ==
    /\ ledger' = cleanupOldRecords(ledger, now)
    /\ input' = [fn |-> "cleanupOldRecords", applied |-> TRUE]
    /\ output' = [before |-> ledger]
    /\ UNCHANGED <<now, engine, driver>>

NextCleanup == Cleanup

SpecCleanup == InitCleanup /\ [][NextCleanup]_vars

\* How often a record occurs in a store.
Occurrences(records, r) == Cardinality({i \in 1..Len(records) : records[i] = r})

\* C33: after cleanupOldRecords no record played 24 hours or more ago is in
\* the store, every record played less than 24 hours ago is in it as often as
\* before and unchanged, nothing else is in it, and the records kept are in
\* the order they had.
C33_CleanupRemovesExactlyOld ==
    input.applied =>
        /\ \A r \in Range(output.before) :
               IF now - r.playedAt >= 24 * 60
               THEN r \notin Range(ledger)
               ELSE Occurrences(ledger, r) = Occurrences(output.before, r)
        /\ Range(ledger) \subseteq Range(output.before)
        /\ \A i, j \in 1..Len(ledger) :
               (i < j /\ ledger[i] # ledger[j]) =>
                   \E k, l \in 1..Len(output.before) :
                       k < l /\ output.before[k] = ledger[i] /\ output.before[l] = ledger[j]

\* C33 witness: the store held a record played exactly 24 hours ago and one
\* played a minute later; the call has left the second alone.
C33_Witness ==
    /\ input.applied
    /\ Len(output.before) = 2
    /\ output.before[1].playedAt = now - 24 * 60
    /\ output.before[2].playedAt = now - 24 * 60 + 1
    /\ ledger = <<output.before[2]>>

-----------------------------------------------------------------------------
(* One playback per entry and page                                         *)

\* The playback of the entry has begun on this page: it is in playback now, or
\* its playback has ended, committed or aborted.
StartedOnPage(entryId) ==
    \/ outcome[entryId] # "none"
    \/ \E i \in 1..Len(drains) : drains[i].item.entryId = entryId

\* C34: on a page that is not reloaded, playedEntries never loses an entry; a
\* playback begins only for an entry whose playback has not begun before on
\* this page; and an item that enters the queue is never of an entry whose
\* playback has begun, whatever its threshold and however that playback ended.
C34_OnePlaybackPerEntryAndPage ==
    [][ LET reloaded == Reload
        IN ~reloaded =>
            /\ playedEntries \subseteq playedEntries'
            /\ \A e \in EntryIds : StartedOnPage(e) => e \in playedEntries
            /\ \A j \in 1..Len(drains') :
                   ( /\ drains'[j].stage = "ChimeStart"
                     /\ \A i \in 1..Len(drains) : drains[i] # drains'[j] )
                   => ~StartedOnPage(drains'[j].item.entryId)
            /\ \A k \in 1..Len(globalAudioQueue') :
                   (\A i \in 1..Len(globalAudioQueue) :
                        globalAudioQueue[i] # globalAudioQueue'[k])
                   => ~StartedOnPage(globalAudioQueue'[k].entryId)
      ]_vars

\* C34 witness: the playback of e1 was aborted, and a feed's detector offers
\* e1 again while nothing of e1 waits or plays.
C34_Witness ==
    /\ outcome["e1"] = "Aborted"
    /\ "e1" \in playedEntries
    /\ ~Pending("e1")
    /\ \E f \in Feeds :
           \E k \in 1..Len(Candidates(f, ledger, now)) :
               Candidates(f, ledger, now)[k].entryId = "e1"

-----------------------------------------------------------------------------
(* Progress of the queue on one page                                       *)

\* One page session: the steps of Spec but the reload.
NextLive ==
    \/ AdvanceClock
    \/ \E f \in Feeds : Poll(f)
    \/ BatchTimerFires
    \/ \E i \in 1..Len(drains) : StageCompletes(i)
    \/ \E i \in 1..Len(drains) : StageFails(i)
    \/ \E i \in 1..Len(drains) : RecordSaved(i)

\* A pending collection-window timer fires; every chime and speech call
\* settles, by completing or by failing; the code after the end chime runs.
Fairness ==
    /\ WF_vars(BatchTimerFires)
    /\ WF_vars(\E i \in 1..Len(drains) : StageCompletes(i) \/ StageFails(i))
    /\ WF_vars(\E i \in 1..Len(drains) : RecordSaved(i))

SpecLive == Init /\ [][NextLive]_vars /\ Fairness

\* C35: every item in the queue eventually leaves it, and a set drain flag is
\* eventually released.
C35_AcceptedItemsAreDequeued ==
    /\ \A e \in EntryIds :
           (e \in QueueIds(globalAudioQueue)) ~> (e \notin QueueIds(globalAudioQueue))
    /\ isProcessingGlobalQueue ~> ~isProcessingGlobalQueue

\* C35 witness: a drain is in progress, an item that was not in the queue when
\* the drain began waits, and its collection-window timer has fired already.
C35_Witness ==
    /\ isProcessingGlobalQueue
    /\ drains # << >>
    /\ ~batchProcessingTimeout
    /\ \E k \in 1..Len(globalAudioQueue) :
           globalAudioQueue[k].entryId \notin QueueIds(lastBatch)

-----------------------------------------------------------------------------
(* A stopped feed                                                          *)

\* C36 (as claimed): a cycle that ends when its feed has been stopped (its
\* board's cleanup was called and the key is not running) adds nothing to the
\* queue and leaves the board's published state as it was.
C36_StoppedFeedIsSilent ==
    [][ \A i \in 1..Len(pollCycles) :
            ( /\ CycleEndsInStep(i)
              /\ ~isRunning(pollingStates, pollCycles[i].monitorKey)
              /\ hooks[pollCycles[i].hook].cleanup = "none" )
            => /\ globalAudioQueue' = globalAudioQueue
               /\ hooks'[pollCycles[i].hook].displayEntries =
                      hooks[pollCycles[i].hook].displayEntries
               /\ hooks'[pollCycles[i].hook].error = hooks[pollCycles[i].hook].error
      ]_vars

-----------------------------------------------------------------------------
(* Two boards on one monitor key                                           *)

\* Both boards show monitor "1" (the same monitor on both sides of the split
\* view, or an effect that is set up twice).
SharedKey == "1"

NextShared ==
    \/ \E h \in Hooks : StartPolling(h, SharedKey)
    \/ \E h \in Hooks : StopPolling(h)
    \/ \E i \in 1..Len(pollTimers) : PollTimerFires(i)
    \/ \E i \in 1..Len(pollCycles), fetched \in FetchOutcomes,
          pollingIntervalSeconds \in PollingIntervals :
           CycleCompletes(i, fetched, pollingIntervalSeconds)
    \/ BatchTimerFires
    \/ \E i \in 1..Len(drains) : StageCompletes(i)
    \/ \E i \in 1..Len(drains) : RecordSaved(i)

SpecShared == Init /\ [][NextShared]_vars

\* C37 (as claimed): a step in which one board calls its cleanup while another
\* board that started polling for the same key has not called its own leaves
\* the key running.
C37_PollingUntilBothCleanups ==
    [][ \A h \in Hooks :
            ( /\ hooks[h].cleanup # "none"
              /\ hooks'[h].cleanup = "none"
              /\ \E g \in Hooks \ {h} :
                     /\ hooks[g].cleanup # "none"
                     /\ hooks[g].monitorKey = hooks[h].monitorKey )
            => isRunning(pollingStates', hooks[h].monitorKey)
      ]_vars

\* What the joiner's cleanup does establish: called while the first caller has
\* not called its own, it leaves the key running and the timers as they were.
JoinerCleanupKeepsPolling ==
    [][ \A h \in Hooks :
            ( /\ hooks[h].cleanup = "joiner"
              /\ hooks'[h].cleanup = "none"
              /\ \E g \in Hooks \ {h} :
                     /\ hooks[g].cleanup = "owner"
                     /\ hooks[g].monitorKey = hooks[h].monitorKey
              /\ isRunning(pollingStates, hooks[h].monitorKey) )
            => /\ isRunning(pollingStates', hooks[h].monitorKey)
               /\ pollTimers' = pollTimers
      ]_vars

-----------------------------------------------------------------------------
(* Records merged across days                                              *)

\* C38 (as claimed): whenever hasBeenPlayed is true of an entry and a
\* threshold, a threshold not larger than it was committed for the entry on
\* the current day.
C38_PlayedOnlyIfPlayedToday ==
    \A e \in EntryIds, t \in Thresholds :
        hasBeenPlayed(ledger, e, t, now) =>
            \E s \in Thresholds :
                s <= t /\ commitCount[<<e, s, DayOf(now)>>] > 0

\* What hasBeenPlayed does establish: it is true only if a record of the
\* entry carries the current day, that is, some threshold of the entry was
\* committed on the current day.
PlayedOnlyIfSomeCommitToday ==
    \A e \in EntryIds, t \in Thresholds :
        hasBeenPlayed(ledger, e, t, now) =>
            \E s \in Thresholds : commitCount[<<e, s, DayOf(now)>>] > 0

-----------------------------------------------------------------------------
(* Entries that finish after midnight                                      *)

\* C39 (as claimed): an entry whose arrival time of day is at or after the
\* current minute keeps an arrival instant below 1440.
C39_UpcomingEntryStaysToday ==
    (input.fn = "normalizeEntries" /\ input.applied) =>
        LET arrival == input.entry.arrivalTime[1] * 60 + input.entry.arrivalTime[2]
        IN arrival >= input.currentTimeMinutes =>
               /\ Len(output) = 1
               /\ output[1].arrivalDatetime < 1440

\* What normalizeEntries does establish: such an entry keeps an instant below
\* 1440 when its finish time, as a time of day, is not before its arrival.
UpcomingEntryStaysTodayUnlessWrapped ==
    (input.fn = "normalizeEntries" /\ input.applied) =>
        LET arrival == input.entry.arrivalTime[1] * 60 + input.entry.arrivalTime[2]
            finish  == IF input.entry.finishTime = NoTime
                       THEN arrival + 5
                       ELSE input.entry.finishTime[1] * 60 + input.entry.finishTime[2]
        IN (arrival >= input.currentTimeMinutes /\ finish >= arrival) =>
               /\ Len(output) = 1
               /\ output[1].arrivalDatetime = arrival

-----------------------------------------------------------------------------
(* The global playback state                                               *)

\* C40: isPlaying is true exactly when currentEntryId is not null; while no
\* playGlobalAudio execution is suspended (every execution has ended,
\* committed or aborted) the state is isPlaying false, currentEntryId null,
\* currentEntryArrivalTime null; and while one is suspended the state is that
\* of its own item, with nothing left of the item before it.
C40_PlaybackStateConsistent ==
    /\ globalPlaybackState.isPlaying = (globalPlaybackState.currentEntryId # NoEntry)
    /\ ~globalPlaybackState.isPlaying =>
           globalPlaybackState.currentEntryArrivalTime = NoTime
    /\ drains = << >> =>
           /\ ~globalPlaybackState.isPlaying
           /\ globalPlaybackState.currentEntryId = NoEntry
           /\ globalPlaybackState.currentEntryArrivalTime = NoTime
    /\ \A i \in 1..Len(drains) :
           /\ globalPlaybackState.isPlaying
           /\ globalPlaybackState.currentEntryId = drains[i].item.entryId
           /\ globalPlaybackState.currentEntryArrivalTime = drains[i].item.arrivalTime

\* C40 witness: both kinds of ending have happened on the page, one entry's
\* playback was aborted and another's committed, nothing is left to play, and
\* the state is at rest.
C40_Witness ==
    /\ \E a, b \in EntryIds : outcome[a] = "Aborted" /\ outcome[b] = "Committed"
    /\ drains = << >>
    /\ globalAudioQueue = << >>
    /\ ~globalPlaybackState.isPlaying
    /\ globalPlaybackState.currentEntryId = NoEntry

====
